---- MODULE Spec2Model ----
(***************************************************************************)
(* A model of Summer Breeze (src/summerbreeze.py): a command line front    *)
(* end over the sc64deployer executable.  Text is modelled as sequences of *)
(* one-character strings so that strip(), lower(), split() and int() are   *)
(* computed the way Python computes them.                                  *)
(***************************************************************************)
EXTENDS Integers, Sequences, FiniteSets, TLC

VARIABLES
    pc,         \* position of the running program / function
    arg,        \* input of the function under check (pure-function specifications)
    res,        \* its result
    mode,       \* "cli": one command from the command line, "menu": main_menu
    log,        \* the deployer calls and answered prompts of the running command
    loc,        \* the local variables of the running command
    outcome,    \* what the last command reported when it returned
    asked,      \* the last input given, the prompt it was given at, its limit
    runs        \* commands started from the main menu

fnVars   == <<arg, res>>
progVars == <<mode, log, loc, outcome, asked, runs>>
vars     == <<pc, arg, res, mode, log, loc, outcome, asked, runs>>

None == "none"

(***************************************************************************)
(* Bounds of the model.                                                    *)
(***************************************************************************)
MaxNameToks == 3
MaxEntries == 4
MaxOutToks == 5
MaxRemote == 2
MaxVal == 4
MaxMenuFiles == 19
MaxRuns == 2
MaxRenders == 2
MaxMusic == 2
MaxScan == 1
MaxNodes == 3
MaxListings == 6

\* the program's variables while a single function is under check
NoLoc   == [cmd |-> "none"]
NoAsked == [prompt |-> "none", inp |-> [kind |-> "none", text |-> <<>>], max |-> 0]

ProgIdle ==
    /\ mode = None
    /\ log = <<>>
    /\ loc = NoLoc
    /\ outcome = None
    /\ asked = NoAsked
    /\ runs = 0

(***************************************************************************)
(* Python text primitives.                                                 *)
(***************************************************************************)
UpperAlpha == <<"A","B","C","D","E","F","G","H","I","J","K","L","M",
                "N","O","P","Q","R","S","T","U","V","W","X","Y","Z">>
LowerAlpha == <<"a","b","c","d","e","f","g","h","i","j","k","l","m",
                "n","o","p","q","r","s","t","u","v","w","x","y","z">>
Digits     == <<"0","1","2","3","4","5","6","7","8","9">>

\* str.lower() on one character
LowerChar(c) ==
    IF \E i \in DOMAIN UpperAlpha : UpperAlpha[i] = c
    THEN LowerAlpha[CHOOSE i \in DOMAIN UpperAlpha : UpperAlpha[i] = c]
    ELSE c

\* str.lower()
Lower(s) == [i \in 1..Len(s) |-> LowerChar(s[i])]

\* the characters str.strip() and str.split() treat as whitespace
IsSpace(c) == c \in {" ", "\t", "\r", "\n"}

RECURSIVE LStrip(_)
LStrip(s) == IF s # <<>> /\ IsSpace(Head(s)) THEN LStrip(Tail(s)) ELSE s

RECURSIVE RStrip(_)
RStrip(s) ==
    IF s # <<>> /\ IsSpace(s[Len(s)]) THEN RStrip(SubSeq(s, 1, Len(s) - 1)) ELSE s

\* str.strip()
Strip(s) == RStrip(LStrip(s))

\* str.endswith(suf)
EndsWith(s, suf) ==
    /\ Len(suf) <= Len(s)
    /\ SubSeq(s, Len(s) - Len(suf) + 1, Len(s)) = suf

\* str.startswith(pre)
StartsWith(s, pre) ==
    /\ Len(pre) <= Len(s)
    /\ SubSeq(s, 1, Len(pre)) = pre

RECURSIVE Concat(_)
Concat(ss) == IF ss = <<>> THEN <<>> ELSE Head(ss) \o Concat(Tail(ss))

\* the characters of the model in code point order
Alphabet ==
    <<"\t", "\n", "\r", " ", "+", ",", "-", ".", "/">> \o Digits \o UpperAlpha
        \o <<"_">> \o LowerAlpha \o <<"|">>

CharOrd(c) == CHOOSE i \in DOMAIN Alphabet : Alphabet[i] = c

\* s <= t in Python's ordering of strings (by code point, a prefix first)
RECURSIVE StrLeq(_, _)
StrLeq(s, t) ==
    IF s = <<>> THEN TRUE
    ELSE IF t = <<>> THEN FALSE
    ELSE IF Head(s) = Head(t) THEN StrLeq(Tail(s), Tail(t))
    ELSE CharOrd(Head(s)) < CharOrd(Head(t))

\* all sequences over S of length at most n
SeqsUpTo(S, n) == UNION {[1..k -> S] : k \in 0..n}

(***************************************************************************)
(* ROM extensions and name normalisation.                                  *)
(***************************************************************************)
\* an extension set in which one member is the tail of another
ROM_EXTENSIONS_Overlapping == { <<".","z","6","4">>, <<".","n","6","4">>, <<"6","4">> }

ROM_EXTENSIONS == { <<".","z","6","4">>, <<".","n","6","4">>, <<".","v","6","4">> }

\* the orders in which a Python set of three strings may be iterated
ExtOrders ==
    {o \in [1..Cardinality(ROM_EXTENSIONS) -> ROM_EXTENSIONS] :
        \A i, j \in DOMAIN o : i # j => o[i] # o[j]}

\* the for loop of normalize_rom_name without its break
RECURSIVE StripExtNoBreak(_, _)
StripExtNoBreak(name, order) ==
    IF order = <<>> THEN name
    ELSE IF EndsWith(Lower(name), Head(order))
         THEN StripExtNoBreak(SubSeq(name, 1, Len(name) - Len(Head(order))), Tail(order))
         ELSE StripExtNoBreak(name, Tail(order))

\* the for loop of normalize_rom_name: the first extension, in iteration
\* order, that the lowercased name ends with is cut off, and the loop breaks
RECURSIVE StripExt(_, _)
StripExt(name, order) ==
    IF order = <<>> THEN name
    ELSE IF EndsWith(Lower(name), Head(order))
         THEN SubSeq(name, 1, Len(name) - Len(Head(order)))
         ELSE StripExt(name, Tail(order))

normalize_rom_name(name, order) == Strip(Lower(StripExt(name, order)))

\* pieces the checked names are built from
NameToks ==
    { <<"G">>, <<"a">>, <<" ">>, <<".">>,
      <<".","z","6","4">>, <<".","Z","6","4">>, <<".","N","6","4">>,
      <<".","v","6","4">>, <<".","t","x","t">> }

Names == {Concat(t) : t \in SeqsUpTo(NameToks, MaxNameToks)}

InitNormalize ==
    /\ pc = "normalize_call"
    /\ arg \in [name : Names, order : ExtOrders]
    /\ res = None
    /\ ProgIdle

Normalize ==
    /\ pc = "normalize_call"
    /\ res' = normalize_rom_name(arg.name, arg.order)
    /\ pc' = "normalize_ret"
    /\ UNCHANGED arg
    /\ UNCHANGED progVars

NextNormalize == Normalize

SpecNormalize == InitNormalize /\ [][NextNormalize]_vars

\* the recognised extension, if any, that the name ends with (any casing)
MatchingExts(name) == {e \in ROM_EXTENSIONS : EndsWith(Lower(name), e)}

\* C3: normalize_rom_name cuts exactly one matching trailing extension (the
\* last four characters, never a second extension before them), lowercases
\* and trims the rest; a name without a recognised extension is only
\* lowercased and trimmed.
C3_NormalizeStripsOneExtension ==
    pc = "normalize_ret" =>
        LET n == arg.name IN
        IF MatchingExts(n) # {}
        THEN res = Strip(Lower(SubSeq(n, 1, Len(n) - 4)))
        ELSE res = Strip(Lower(n))

\* the comparison key of a name: lowercased, one trailing extension cut, trimmed
KeyOf(n) ==
    IF MatchingExts(n) # {} THEN Strip(Lower(SubSeq(n, 1, Len(n) - 4))) ELSE Strip(Lower(n))

\* a name ending in two recognised extensions has been normalised
C3_Witness ==
    /\ pc = "normalize_ret"
    /\ Len(arg.name) >= 8
    /\ MatchingExts(arg.name) # {}
    /\ MatchingExts(res) # {}
    /\ MatchingExts(res) # MatchingExts(arg.name)

(***************************************************************************)
(* Local ROM enumeration.                                                  *)
(***************************************************************************)
Str_s    == <<"s">>
Str_t    == <<"t">>
Str_dz64 == <<"d", ".", "z", "6", "4">>

\* directory entries a local roms directory may hold: dir is the path of
\* the containing directory below roms/, name the entry's file name
EntryPool ==
    { [dir |-> <<>>,             name |-> <<"A",".","z","6","4">>,  isfile |-> TRUE],
      [dir |-> <<>>,             name |-> <<"b",".","N","6","4">>,  isfile |-> TRUE],
      [dir |-> <<>>,             name |-> <<"n",".","t","x","t">>,  isfile |-> TRUE],
      [dir |-> <<>>,             name |-> <<".","z","6","4">>,      isfile |-> TRUE],
      [dir |-> <<>>,             name |-> Str_s,                    isfile |-> FALSE],
      [dir |-> <<Str_s>>,        name |-> <<"C",".","v","6","4">>,  isfile |-> TRUE],
      [dir |-> <<Str_s>>,        name |-> Str_t,                    isfile |-> FALSE],
      [dir |-> <<Str_s, Str_t>>, name |-> <<"a",".","Z","6","4">>,  isfile |-> TRUE],
      [dir |-> <<>>,             name |-> Str_dz64,                 isfile |-> FALSE],
      [dir |-> <<Str_dz64>>,     name |-> <<"g",".","s","r","a">>,  isfile |-> TRUE] }

\* every entry below the root lies in a directory that is itself an entry
ParentClosed(S) ==
    \A e \in S : e.dir # <<>> =>
        \E d \in S : /\ ~d.isfile
                     /\ d.dir = SubSeq(e.dir, 1, Len(e.dir) - 1)
                     /\ d.name = e.dir[Len(e.dir)]

Permutations_(S) ==
    {f \in [1..Cardinality(S) -> S] : \A i, j \in DOMAIN f : i # j => f[i] # f[j]}

\* a roms directory: whether it exists, and the order in which
\* Path.rglob("*") yields its entries (the order is the file system's)
LocalTrees ==
    { [exists |-> FALSE, walk |-> <<>>] } \cup
    UNION { { [exists |-> TRUE, walk |-> w] : w \in Permutations_(S) } :
            S \in {T \in SUBSET EntryPool : Cardinality(T) <= MaxEntries /\ ParentClosed(T)} }

RECURSIVE LastDot(_)
\* str.rfind("."), 1-based; 0 when there is none
LastDot(s) == IF s = <<>> THEN 0
              ELSE IF s[Len(s)] = "." THEN Len(s)
              ELSE LastDot(SubSeq(s, 1, Len(s) - 1))

\* pathlib's PurePath.suffix of a file name
Suffix(name) ==
    LET i == LastDot(name) IN
    IF 1 < i /\ i < Len(name) THEN SubSeq(name, i, Len(name)) ELSE <<>>

\* the key list_local_roms and list_local_menu_versions sort by
NameKey(e) == Lower(e.name)

\* insert x behind every element whose key is not greater (sorted() is stable)
RECURSIVE InsertByName(_, _)
InsertByName(x, s) ==
    IF s = <<>> THEN <<x>>
    ELSE IF StrLeq(NameKey(Head(s)), NameKey(x)) THEN <<Head(s)>> \o InsertByName(x, Tail(s))
    ELSE <<x>> \o s

RECURSIVE SortedByName(_)
SortedByName(s) ==
    IF s = <<>> THEN <<>>
    ELSE InsertByName(s[Len(s)], SortedByName(SubSeq(s, 1, Len(s) - 1)))

IsRomFile(e) == e.isfile /\ Lower(Suffix(e.name)) \in ROM_EXTENSIONS

HasRomSuffix(e) == Lower(Suffix(e.name)) \in ROM_EXTENSIONS

\* list_local_roms without the is_file() test
list_local_roms_AnyEntry(tree) ==
    IF ~tree.exists THEN <<>>
    ELSE SortedByName(SelectSeq(tree.walk, HasRomSuffix))

list_local_roms(tree) ==
    IF ~tree.exists THEN <<>>
    ELSE SortedByName(SelectSeq(tree.walk, IsRomFile))

InitLocalRoms ==
    /\ pc = "list_local_call"
    /\ arg \in LocalTrees
    /\ res = None
    /\ ProgIdle

ListLocalRoms ==
    /\ pc = "list_local_call"
    /\ res' = list_local_roms(arg)
    /\ pc' = "list_local_ret"
    /\ UNCHANGED arg
    /\ UNCHANGED progVars

NextLocalRoms == ListLocalRoms

SpecLocalRoms == InitLocalRoms /\ [][NextLocalRoms]_vars

Range(s) == {s[i] : i \in DOMAIN s}

\* a file name with a recognised extension: a non-empty stem followed by
\* .z64, .n64 or .v64 in any casing
NameHasRomExt(name) ==
    \E e \in ROM_EXTENSIONS : Len(name) > Len(e) /\ EndsWith(Lower(name), e)

\* C4: list_local_roms returns exactly the regular files of the tree, at any
\* depth, whose extension is a ROM extension in any casing, each once, in
\* case-insensitive order of file name; nothing for a missing or empty tree.
C4_LocalRomsExactSorted ==
    pc = "list_local_ret" =>
        /\ Range(res) = {e \in Range(arg.walk) : e.isfile /\ NameHasRomExt(e.name)}
        /\ Cardinality(Range(res)) = Len(res)
        /\ \A i, j \in DOMAIN res : i < j => StrLeq(Lower(res[i].name), Lower(res[j].name))
        /\ (~arg.exists \/ arg.walk = <<>>) => res = <<>>

\* a tree with a nested ROM, a directory named like a ROM and two ROMs listed
\* against the walk's order
C4_Witness ==
    /\ pc = "list_local_ret"
    /\ Len(res) >= 2
    /\ \E e \in Range(res) : Len(e.dir) >= 1
    /\ \E e \in Range(arg.walk) : ~e.isfile /\ NameHasRomExt(e.name)
    /\ \E i, j \in DOMAIN arg.walk :
          /\ i < j
          /\ \E k, l \in DOMAIN res : k > l /\ res[k] = arg.walk[i] /\ res[l] = arg.walk[j]

(***************************************************************************)
(* The listing parser.                                                     *)
(***************************************************************************)
RECURSIVE IndexOf(_, _)
\* 1-based position of the first c in s; 0 when there is none
IndexOf(s, c) ==
    IF s = <<>> THEN 0
    ELSE IF Head(s) = c THEN 1
    ELSE LET r == IndexOf(Tail(s), c) IN IF r = 0 THEN 0 ELSE r + 1

RECURSIVE SplitChar(_, _)
\* str.split(c): the pieces between the occurrences of c, at least one piece
SplitChar(s, c) ==
    LET i == IndexOf(s, c) IN
    IF i = 0 THEN <<s>>
    ELSE <<SubSeq(s, 1, i - 1)>> \o SplitChar(SubSeq(s, i + 1, Len(s)), c)

RECURSIVE TakeWord(_)
\* the leading run of non-whitespace characters
TakeWord(s) ==
    IF s = <<>> \/ IsSpace(Head(s)) THEN <<>> ELSE <<Head(s)>> \o TakeWord(Tail(s))

RECURSIVE SplitWs(_)
\* str.split() without argument: the whitespace-separated words
SplitWs(s) ==
    LET t == LStrip(s) IN
    IF t = <<>> THEN <<>>
    ELSE LET w == TakeWord(t) IN <<w>> \o SplitWs(SubSeq(t, Len(w) + 1, Len(t)))

\* line.split("|", 1) cut at the last pipe instead of the first
SplitPipeLast(line) ==
    LET i == CHOOSE k \in DOMAIN line : line[k] = "|" /\ \A m \in DOMAIN line : m > k => line[m] # "|" IN
    <<SubSeq(line, 1, i - 1), SubSeq(line, i + 1, Len(line))>>

\* line.split("|", 1) of a line that contains a pipe
SplitPipe(line) ==
    LET i == IndexOf(line, "|") IN
    <<SubSeq(line, 1, i - 1), SubSeq(line, i + 1, Len(line))>>

\* the record list_sd_card_files appends for one line that contains a pipe
ParseLine(line) ==
    LET parts      == SplitPipe(line)
        meta       == Strip(parts[1])
        name       == Strip(parts[2])
        meta_parts == SplitWs(meta)
    IN  [ name |-> name,
          type |-> IF StartsWith(meta, <<"d">>) THEN "dir" ELSE "file",
          size |-> IF Len(meta_parts) >= 2 THEN meta_parts[2] ELSE <<>>,
          path |-> IF StartsWith(name, <<"/">>) THEN name ELSE <<"/">> \o name ]

RECURSIVE ParseLines(_)
\* the for loop of list_sd_card_files
ParseLines(lines) ==
    IF lines = <<>> THEN <<>>
    ELSE LET line == Head(lines) IN
         IF Strip(line) = <<>> THEN ParseLines(Tail(lines))
         ELSE IF IndexOf(line, "|") = 0 THEN ParseLines(Tail(lines))
         ELSE <<ParseLine(line)>> \o ParseLines(Tail(lines))

\* list_sd_card_files without the test of the exit code
list_sd_card_files_IgnoreCode(code, stdout) ==
    ParseLines(SplitChar(Strip(stdout), "\n"))

\* list_sd_card_files, given what run_sc64_command returned
list_sd_card_files(code, stdout) ==
    IF code # 0 THEN <<>>
    ELSE ParseLines(SplitChar(Strip(stdout), "\n"))

\* pieces the deployer's output is built from
OutToks ==
    { <<"d">>, <<"f">>, <<"\t", "1", "M", " ">>, <<" ">>, <<"|">>, <<"\n">>,
      <<"/", "m">>, <<"a">> }

Stdouts == {Concat(t) : t \in SeqsUpTo(OutToks, MaxOutToks)}

\* exit codes of the deployer: success, failure
ExitCodes == {0, 1}

InitListing ==
    /\ pc = "list_sd_call"
    /\ arg \in [code : ExitCodes, stdout : Stdouts]
    /\ res = None
    /\ ProgIdle

ListSdCardFiles ==
    /\ pc = "list_sd_call"
    /\ res' = list_sd_card_files(arg.code, arg.stdout)
    /\ pc' = "list_sd_ret"
    /\ UNCHANGED arg
    /\ UNCHANGED progVars

NextListing == ListSdCardFiles

SpecListing == InitListing /\ [][NextListing]_vars

\* the lines of a text: the maximal stretches without a line feed
LinesOf(s) ==
    LET brk == {0, Len(s) + 1} \cup {i \in DOMAIN s : s[i] = "\n"} IN
    { SubSeq(s, x[1] + 1, x[2] - 1) :
        x \in {y \in brk \X brk : y[1] < y[2] /\ \A k \in brk : ~(y[1] < k /\ k < y[2])} }

\* the maximal non-whitespace stretches of s, as (first, last) positions
Words(s) ==
    { w \in (DOMAIN s) \X (DOMAIN s) :
        /\ w[1] <= w[2]
        /\ \A k \in w[1]..w[2] : ~IsSpace(s[k])
        /\ (w[1] = 1 \/ IsSpace(s[w[1] - 1]))
        /\ (w[2] = Len(s) \/ IsSpace(s[w[2] + 1])) }

\* the second word of s, or the empty text
SecondWord(s) ==
    LET second == {w \in Words(s) : Cardinality({v \in Words(s) : v[1] < w[1]}) = 1} IN
    IF second = {} THEN <<>>
    ELSE LET w == CHOOSE w \in second : TRUE IN SubSeq(s, w[1], w[2])

\* what the claim says the record of a line with a pipe is
ExpectedRecord(line) ==
    LET p    == CHOOSE k \in DOMAIN line : line[k] = "|" /\ \A m \in 1..(k - 1) : line[m] # "|"
        meta == Strip(SubSeq(line, 1, p - 1))
        name == Strip(SubSeq(line, p + 1, Len(line)))
    IN  [ name |-> name,
          type |-> IF meta # <<>> /\ meta[1] = "d" THEN "dir" ELSE "file",
          size |-> SecondWord(meta),
          path |-> IF name # <<>> /\ name[1] = "/" THEN name ELSE <<"/">> \o name ]

PipeLines(s) == {l \in LinesOf(s) : \E k \in DOMAIN l : l[k] = "|"}

\* C5: every listing line that contains a pipe yields the record split at the
\* first pipe: trimmed name, directory exactly when the trimmed metadata
\* starts with d, size the second word of the metadata or empty, and the
\* path the name itself when it starts with / and / plus the name otherwise.
C5_ListingRecordPerPipeLine ==
    (pc = "list_sd_ret" /\ arg.code = 0) =>
        \A l \in PipeLines(arg.stdout) : ExpectedRecord(l) \in Range(res)

\* a directory line with a size and a second pipe in its name was parsed
C5_Witness ==
    /\ pc = "list_sd_ret"
    /\ arg.code = 0
    /\ \E r \in Range(res) : /\ r.type = "dir"
                             /\ r.size # <<>>
                             /\ r.path = r.name
                             /\ \E k \in DOMAIN r.name : r.name[k] = "|"

(***************************************************************************)
(* Compare local ROMs with the cart.                                       *)
(***************************************************************************)
\* the loop of cmd_compare with the raw names as keys
ComparePartition_RawNames(local_roms, sd_roms, order) ==
    LET sd_rom_names == {sd_roms[i].name : i \in DOMAIN sd_roms}
        IsMissing(rom) == rom.name \notin sd_rom_names
        IsOnCart(rom)  == rom.name \in sd_rom_names
    IN  [missing |-> SelectSeq(local_roms, IsMissing),
         on_cart |-> SelectSeq(local_roms, IsOnCart)]

\* the set of remote keys and the loop of cmd_compare that splits the local
\* list into missing and on_cart
ComparePartition(local_roms, sd_roms, order) ==
    LET sd_rom_names == {normalize_rom_name(sd_roms[i].name, order) : i \in DOMAIN sd_roms}
        IsMissing(rom) == normalize_rom_name(rom.name, order) \notin sd_rom_names
        IsOnCart(rom)  == normalize_rom_name(rom.name, order) \in sd_rom_names
    IN  [missing |-> SelectSeq(local_roms, IsMissing),
         on_cart |-> SelectSeq(local_roms, IsOnCart)]

\* cmd_compare: what it returns and the two lists it prints.  accessible is
\* the answer of is_sd_card_accessible, sd_roms the result of get_all_sd_roms
cmd_compare(local_roms, accessible, sd_roms, order) ==
    IF local_roms = <<>> THEN [ret |-> <<>>, missing |-> <<>>, on_cart |-> <<>>]
    ELSE IF ~accessible THEN [ret |-> local_roms, missing |-> <<>>, on_cart |-> <<>>]
    ELSE LET p == ComparePartition(local_roms, sd_roms, order) IN
         [ret     |-> IF p.missing = <<>> THEN <<>> ELSE p.missing,
          missing |-> p.missing,
          on_cart |-> p.on_cart]

\* the lists list_local_roms can return
LocalLists == {list_local_roms(tr) : tr \in LocalTrees}

\* names of ROM files the remote enumeration can report
RemoteNames ==
    { <<"a",".","z","6","4">>, <<"B",".","z","6","4">>, <<"c",".","V","6","4">>,
      <<"/","s","/","a",".","n","6","4">>, <<"a",".","z","6","4",".","n","6","4">> }

RemoteRoms ==
    { [name |-> n, type |-> "file", size |-> <<>>,
       path |-> IF StartsWith(n, <<"/">>) THEN n ELSE <<"/">> \o n] : n \in RemoteNames }

InitCompare ==
    /\ pc = "compare_call"
    /\ arg \in [local_roms : LocalLists, accessible : BOOLEAN,
                sd_roms : SeqsUpTo(RemoteRoms, MaxRemote)]
    /\ res = None
    /\ ProgIdle

Compare ==
    /\ pc = "compare_call"
    /\ \E order \in ExtOrders :
          res' = cmd_compare(arg.local_roms, arg.accessible, arg.sd_roms, order)
    /\ pc' = "compare_ret"
    /\ UNCHANGED arg
    /\ UNCHANGED progVars

NextCompare == Compare

SpecCompare == InitCompare /\ [][NextCompare]_vars

\* s keeps the relative order its elements have in t (t without duplicates)
KeepsOrderOf(s, t) ==
    \A i, j \in DOMAIN s : i < j =>
        \E k, l \in DOMAIN t : k < l /\ t[k] = s[i] /\ t[l] = s[j]

\* C6: with the SD card accessible, cmd_compare splits the local list into
\* on_cart and missing by equality of normalised names with some remote ROM;
\* the parts are disjoint, cover every local ROM once, keep the local order,
\* and missing is returned.
C6_ComparePartitions ==
    (pc = "compare_ret" /\ arg.accessible) =>
        LET remoteKeys == {KeyOf(arg.sd_roms[i].name) : i \in DOMAIN arg.sd_roms} IN
        /\ \A e \in Range(arg.local_roms) :
              (e \in Range(res.on_cart)) <=> (KeyOf(e.name) \in remoteKeys)
        /\ Range(res.on_cart) \cap Range(res.missing) = {}
        /\ Range(res.on_cart) \cup Range(res.missing) = Range(arg.local_roms)
        /\ Len(res.on_cart) + Len(res.missing) = Len(arg.local_roms)
        /\ KeepsOrderOf(res.on_cart, arg.local_roms)
        /\ KeepsOrderOf(res.missing, arg.local_roms)
        /\ res.ret = res.missing

\* a comparison that found two local ROMs on the cart, one of them by a name
\* of other casing and extension, and one missing
C6_Witness ==
    /\ pc = "compare_ret"
    /\ arg.accessible
    /\ Len(res.on_cart) >= 2
    /\ Len(res.missing) >= 1
    /\ \E e \in Range(res.on_cart) : \A i \in DOMAIN arg.sd_roms : arg.sd_roms[i].name # e.name
    /\ res.ret = res.missing

(***************************************************************************)
(* The prompts.  An input is a line the user typed or an interrupt         *)
(* (KeyboardInterrupt raised by input()).                                  *)
(***************************************************************************)
Line(text) == [kind |-> "line", text |-> text]
Interrupt  == [kind |-> "interrupt", text |-> <<>>]
\* no input given yet
NoInput    == [kind |-> "none", text |-> <<>>]

IsDigit(c) == \E i \in DOMAIN Digits : Digits[i] = c
DigitVal(c) == (CHOOSE i \in DOMAIN Digits : Digits[i] = c) - 1

RECURSIVE DigitsVal(_)
\* the value of a run of digits and underscores
DigitsVal(s) ==
    IF s = <<>> THEN 0
    ELSE IF s[Len(s)] = "_" THEN DigitsVal(SubSeq(s, 1, Len(s) - 1))
    ELSE 10 * DigitsVal(SubSeq(s, 1, Len(s) - 1)) + DigitVal(s[Len(s)])

\* int(s): surrounding whitespace, an optional sign, decimal digits which
\* single underscores may separate; anything else raises ValueError
ParseInt(s) ==
    LET t    == Strip(s)
        neg  == t # <<>> /\ t[1] = "-"
        body == IF t # <<>> /\ t[1] \in {"+", "-"} THEN Tail(t) ELSE t
        ok   == /\ body # <<>>
                /\ IsDigit(body[1]) /\ IsDigit(body[Len(body)])
                /\ \A k \in DOMAIN body : IsDigit(body[k]) \/ body[k] = "_"
                /\ \A k \in 1..(Len(body) - 1) : ~(body[k] = "_" /\ body[k + 1] = "_")
    IN  [ok |-> ok, val |-> IF ~ok THEN 0 ELSE IF neg THEN 0 - DigitsVal(body) ELSE DigitsVal(body)]

Str_0   == <<"0">>
Str_all == <<"a", "l", "l">>

\* one pass of get_choice's loop with the upper limit one too high
get_choice_OffByOne(max_val, inp) ==
    IF inp.kind = "interrupt" THEN [ret |-> TRUE, val |-> 0]
    ELSE LET choice == Strip(inp.text) IN
         IF choice = Str_0 THEN [ret |-> TRUE, val |-> 0]
         ELSE LET n == ParseInt(choice) IN
              IF n.ok /\ 1 <= n.val /\ n.val <= max_val + 1
              THEN [ret |-> TRUE, val |-> n.val]
              ELSE [ret |-> FALSE, val |-> 0]

\* one pass of get_choice's loop on one input: ret says whether the function
\* returns (val then is what it returns) or prompts again
get_choice(max_val, inp) ==
    IF inp.kind = "interrupt" THEN [ret |-> TRUE, val |-> 0]
    ELSE LET choice == Strip(inp.text) IN
         IF choice = Str_0 THEN [ret |-> TRUE, val |-> 0]
         ELSE LET n == ParseInt(choice) IN
              IF n.ok /\ 1 <= n.val /\ n.val <= max_val
              THEN [ret |-> TRUE, val |-> n.val]
              ELSE [ret |-> FALSE, val |-> 0]

RECURSIVE SortedInts(_)
\* sorted() of a set of integers
SortedInts(S) ==
    IF S = {} THEN <<>>
    ELSE LET m == CHOOSE x \in S : \A y \in S : x <= y IN <<m>> \o SortedInts(S \ {m})

RECURSIVE InsertInt(_, _)
InsertInt(x, s) ==
    IF s = <<>> THEN <<x>>
    ELSE IF Head(s) <= x THEN <<Head(s)>> \o InsertInt(x, Tail(s)) ELSE <<x>> \o s

RECURSIVE SortedIntSeq(_)
\* sorted() of a list of integers
SortedIntSeq(s) ==
    IF s = <<>> THEN <<>>
    ELSE InsertInt(s[Len(s)], SortedIntSeq(SubSeq(s, 1, Len(s) - 1)))

\* the parts of the input, each converted by int(part.strip())
PartInts(raw) == LET parts == SplitChar(raw, ",") IN
                 [k \in DOMAIN parts |-> ParseInt(Strip(parts[k]))]

\* one pass of get_multi_choice's loop returning sorted(choices), duplicates kept
get_multi_choice_NoSet(max_val, inp) ==
    IF inp.kind = "interrupt" THEN [ret |-> TRUE, val |-> <<>>]
    ELSE LET raw == Lower(Strip(inp.text)) IN
         IF raw = Str_0 THEN [ret |-> TRUE, val |-> <<>>]
         ELSE IF raw = Str_all THEN [ret |-> TRUE, val |-> [k \in 1..max_val |-> k]]
         ELSE LET ints == PartInts(raw)
                  InRange(n) == 1 <= n.val /\ n.val <= max_val
                  choices == SelectSeq(ints, InRange)
              IN  IF \E k \in DOMAIN ints : ~ints[k].ok
                  THEN [ret |-> FALSE, val |-> <<>>]
                  ELSE [ret |-> TRUE,
                        val |-> SortedIntSeq([k \in DOMAIN choices |-> choices[k].val])]

\* one pass of get_multi_choice's loop on one input
get_multi_choice(max_val, inp) ==
    IF inp.kind = "interrupt" THEN [ret |-> TRUE, val |-> <<>>]
    ELSE LET raw == Lower(Strip(inp.text)) IN
         IF raw = Str_0 THEN [ret |-> TRUE, val |-> <<>>]
         ELSE IF raw = Str_all THEN [ret |-> TRUE, val |-> [k \in 1..max_val |-> k]]
         ELSE LET ints == PartInts(raw)
                  InRange(n) == 1 <= n.val /\ n.val <= max_val
                  choices == SelectSeq(ints, InRange)
              IN  \* a part that is no integer raises ValueError: prompt again
                  IF \E k \in DOMAIN ints : ~ints[k].ok
                  THEN [ret |-> FALSE, val |-> <<>>]
                  ELSE [ret |-> TRUE,
                        val |-> SortedInts({choices[k].val : k \in DOMAIN choices})]

ChoiceTexts ==
    { <<"0">>, <<"1">>, <<"2">>, <<"3">>, <<"4">>, <<"5">>, <<"6">>, <<" ", "2", " ">>,
      <<"+", "1">>, <<"-", "1">>, <<"0", "0">>, <<"0", "3">>, <<"1", "_", "1">>,
      <<"1", "1">>, <<"1", "2">>, <<"x">>, <<>>, <<"1", ".", "0">>, <<"y">>,
      <<" ", "0">>, <<"0", " ", "0">>, <<"1", " ", "2">>, <<"b">>, <<"a", "l", "l">> }

ChoiceInputs == {Line(x) : x \in ChoiceTexts} \cup {Interrupt}

MultiTexts ==
    { <<"0">>, <<"a", "l", "l">>, <<" ", "A", "L", "L", " ">>, <<"1">>, <<"2">>,
      <<"1", ",", "3">>, <<"3", ",", "1", ",", "1">>, <<"1", ",", " ", "2">>, <<"9">>,
      <<"0", ",", "1">>, <<"1", ",", "9">>, <<"9", ",", "8">>, <<"1", ",", ",", "2">>,
      <<"1", ",", "x">>, <<>>, <<"x">>, <<"-", "1">>, <<" ", "0", " ">>,
      <<"2", ",", "+", "3">>, <<"3", ",", "2", ",", "1">>, <<"a", "l", "l", ",", "1">>,
      <<"1", ",", "2", ",", "3", ",", "4">>, <<"2", ",", "9", ",", "1", ",", "2">>, <<"4", ",", "4">>, <<"0", "0">>,
      <<"0", ",", "0">>, <<",">> }

MultiInputs == {Line(x) : x \in MultiTexts} \cup {Interrupt}

InitChoice ==
    /\ pc = "choice_prompt"
    /\ arg \in [max_val : 1..MaxVal, inp : {NoInput}]
    /\ res = None
    /\ ProgIdle

\* the user answers the prompt of get_choice
ChoiceInput ==
    /\ pc = "choice_prompt"
    /\ \E inp \in ChoiceInputs :
          LET r == get_choice(arg.max_val, inp) IN
          /\ arg' = [arg EXCEPT !.inp = inp]
          /\ pc' = IF r.ret THEN "choice_ret" ELSE "choice_prompt"
          /\ res' = IF r.ret THEN r.val ELSE None
    /\ UNCHANGED progVars

NextChoice == ChoiceInput

SpecChoice == InitChoice /\ [][NextChoice]_vars

InitMulti ==
    /\ pc = "multi_prompt"
    /\ arg \in [max_val : 1..MaxVal, inp : {NoInput}]
    /\ res = None
    /\ ProgIdle

\* the user answers the prompt of get_multi_choice
MultiInput ==
    /\ pc = "multi_prompt"
    /\ \E inp \in MultiInputs :
          LET r == get_multi_choice(arg.max_val, inp) IN
          /\ arg' = [arg EXCEPT !.inp = inp]
          /\ pc' = IF r.ret THEN "multi_ret" ELSE "multi_prompt"
          /\ res' = IF r.ret THEN r.val ELSE None
    /\ UNCHANGED progVars

NextMulti == MultiInput

SpecMulti == InitMulti /\ [][NextMulti]_vars

\* the input is a comma-separated list of integers
IsIntList(text) ==
    LET parts == SplitChar(Lower(Strip(text)), ",") IN
    \A k \in DOMAIN parts : ParseInt(parts[k]).ok

\* the integers the input lists
IntsListed(text) ==
    LET parts == SplitChar(Lower(Strip(text)), ",") IN
    {ParseInt(parts[k]).val : k \in DOMAIN parts}

\* C7: for a comma-separated list of integers get_multi_choice returns the
\* ascending, duplicate-free list of exactly the listed values within
\* 1..max; "all" returns 1..max; "0" returns the empty list; every returned
\* value lies in 1..max.
C7_MultiChoiceResult ==
    /\ pc = "multi_ret" =>
          /\ \A k \in DOMAIN res : res[k] \in 1..arg.max_val
          /\ \A k \in 1..(Len(res) - 1) : res[k] < res[k + 1]
    /\ arg.inp.kind = "line" =>
          LET raw == Lower(Strip(arg.inp.text)) IN
          /\ raw = Str_0 => pc = "multi_ret" /\ res = <<>>
          /\ raw = Str_all => pc = "multi_ret" /\ res = [k \in 1..arg.max_val |-> k]
          /\ (IsIntList(arg.inp.text) /\ raw # Str_0) =>
                /\ pc = "multi_ret"
                /\ Range(res) = IntsListed(arg.inp.text) \cap (1..arg.max_val)

\* a list with a repeated value, in descending order, with one value out of
\* range was answered
C7_Witness ==
    /\ pc = "multi_ret"
    /\ arg.inp.kind = "line"
    /\ Len(SplitChar(arg.inp.text, ",")) >= Len(res) + 2
    /\ Len(res) = 2
    /\ ParseInt(SplitChar(arg.inp.text, ",")[1]).val > res[1]
    /\ \E v \in IntsListed(arg.inp.text) : v > arg.max_val

\* C8: get_choice returns only values in 0..max: v in 1..max exactly when
\* the input is the integer v, 0 exactly when the input is 0 or an
\* interrupt; after any other input it prompts again.
C8_ChoiceResult ==
    /\ pc = "choice_ret" => res \in 0..arg.max_val
    /\ arg.inp # NoInput =>
          LET n == ParseInt(arg.inp.text)
              isZero == arg.inp.kind = "interrupt" \/ Strip(arg.inp.text) = Str_0
              isPick == arg.inp.kind = "line" /\ n.ok /\ n.val \in 1..arg.max_val
          IN  /\ isPick => pc = "choice_ret" /\ res = n.val
              /\ isZero => pc = "choice_ret" /\ res = 0
              /\ (~isPick /\ ~isZero) => pc = "choice_prompt" /\ res = None

\* the prompt returned the largest allowed value
C8_Witness ==
    /\ pc = "choice_ret"
    /\ arg.inp.kind = "line"
    /\ res = arg.max_val
    /\ arg.max_val = MaxVal

\* an integer above the limit was answered and the prompt is shown again
C8_WitnessReprompt ==
    /\ pc = "choice_prompt"
    /\ arg.inp.kind = "line"
    /\ ParseInt(arg.inp.text).ok
    /\ ParseInt(arg.inp.text).val > arg.max_val

(***************************************************************************)
(* The program: main, the main menu and the commands.                      *)
(***************************************************************************)
\* items_per_page of cmd_update_menu
items_per_page == 9
\* len(options) of main_menu
NumOptions == 11

SD_MENU_PATH == <<"/", "s", "c", "6", "4", "m", "e", "n", "u", ".", "n", "6", "4">>

Str_y == <<"y">>
Str_p == <<"p">>
Str_n == <<"n">>
Str_b == <<"b">>

\* a deployer call, as run_sc64_command sees it
Call(op, target, code) == [ev |-> "call", op |-> op, target |-> target, code |-> code]
\* an answered prompt
Answer(prompt, text) == [ev |-> "answer", op |-> prompt, target |-> text, code |-> 0]

IsCall(e, op, target) == e.ev = "call" /\ e.op = op /\ e.target = target

\* the command returns to its caller: main (then the process exits) or main_menu
Return(out) ==
    /\ pc' = IF mode = "cli" THEN "exit" ELSE "mm_continue"
    /\ outcome' = out

Goto(p) == pc' = p /\ UNCHANGED outcome

\* an exception no handler catches: the process ends with a traceback
Raise(exc) == pc' = exc /\ UNCHANGED outcome

Crash == Raise("KeyboardInterrupt")

Ask(inp, max) == asked' = [prompt |-> pc, inp |-> inp, max |-> max]

\* the first position of each command
Entry(cmd) ==
    CASE cmd = "menu"    -> "um_check_device"
      [] cmd = "upload"  -> "up_check_device"
      [] cmd = "browse"  -> "br_check_device"
      [] cmd = "status"  -> "st_check_device"
      [] cmd = "local"   -> "lc_list"
      [] cmd = "cart"    -> "ct_check_sd"
      [] cmd = "compare" -> "cm_compare"
      [] cmd = "quick"   -> "qk_check_device"
      [] cmd = "music"   -> "mu_check_device"
      [] cmd = "rtc"     -> "rt_check_device"
      [] OTHER           -> "exit"

\* main's comparison without the lower() of line 909
Dispatch_CaseSensitive(argv1) ==
    LET cmd == argv1 IN
    IF cmd \in {<<"s", "t", "a", "t", "u", "s">>, <<"s">>} THEN "status"
    ELSE IF cmd \in {<<"l", "o", "c", "a", "l">>, <<"l">>} THEN "local"
    ELSE IF cmd \in {<<"c", "a", "r", "t">>, <<"c">>} THEN "cart"
    ELSE IF cmd \in {<<"c", "o", "m", "p", "a", "r", "e">>, <<"d", "i", "f", "f">>, <<"d">>} THEN "compare"
    ELSE IF cmd \in {<<"u", "p", "l", "o", "a", "d">>, <<"u">>} THEN "upload"
    ELSE IF cmd \in {<<"q", "u", "i", "c", "k">>, <<"q">>} THEN "quick"
    ELSE IF cmd \in {<<"m", "e", "n", "u">>, <<"m">>} THEN "menu"
    ELSE IF cmd \in {<<"m", "u", "s", "i", "c">>, <<"b", "g", "m">>} THEN "music"
    ELSE IF cmd \in {<<"b", "r", "o", "w", "s", "e">>, <<"s", "d">>} THEN "browse"
    ELSE IF cmd \in {<<"r", "t", "c">>, <<"c", "l", "o", "c", "k">>, <<"t", "i", "m", "e">>} THEN "rtc"
    ELSE IF cmd \in {<<"h", "e", "l", "p">>, <<"h">>, <<"-", "h">>, <<"-", "-", "h", "e", "l", "p">>} THEN "help"
    ELSE "unknown"

\* main(): the command a command line argument selects
Dispatch(argv1) ==
    LET cmd == Lower(argv1) IN
    IF cmd \in {<<"s", "t", "a", "t", "u", "s">>, <<"s">>} THEN "status"
    ELSE IF cmd \in {<<"l", "o", "c", "a", "l">>, <<"l">>} THEN "local"
    ELSE IF cmd \in {<<"c", "a", "r", "t">>, <<"c">>} THEN "cart"
    ELSE IF cmd \in {<<"c", "o", "m", "p", "a", "r", "e">>, <<"d", "i", "f", "f">>, <<"d">>} THEN "compare"
    ELSE IF cmd \in {<<"u", "p", "l", "o", "a", "d">>, <<"u">>} THEN "upload"
    ELSE IF cmd \in {<<"q", "u", "i", "c", "k">>, <<"q">>} THEN "quick"
    ELSE IF cmd \in {<<"m", "e", "n", "u">>, <<"m">>} THEN "menu"
    ELSE IF cmd \in {<<"m", "u", "s", "i", "c">>, <<"b", "g", "m">>} THEN "music"
    ELSE IF cmd \in {<<"b", "r", "o", "w", "s", "e">>, <<"s", "d">>} THEN "browse"
    ELSE IF cmd \in {<<"r", "t", "c">>, <<"c", "l", "o", "c", "k">>, <<"t", "i", "m", "e">>} THEN "rtc"
    ELSE IF cmd \in {<<"h", "e", "l", "p">>, <<"h">>, <<"-", "h">>, <<"-", "-", "h", "e", "l", "p">>} THEN "help"
    ELSE "unknown"

CliArgs ==
    { <<"m", "e", "n", "u">>, <<"M">>, <<"u", "p", "l", "o", "a", "d">>, <<"U">>,
      <<"b", "r", "o", "w", "s", "e">>, <<"S", "D">>, <<"h", "e", "l", "p">>,
      <<"-", "-", "H", "E", "L", "P">>, <<"b", "o", "g", "u", "s">>, <<>>,
      <<"s", "t", "a", "t", "u", "s">>, <<"L">>, <<"c", "a", "r", "t">>,
      <<"D", "i", "f", "f">>, <<"q">>, <<"b", "g", "m">>, <<"r", "t", "c">> }

\* the commands main and main_menu can start
Modelled == {"status", "local", "cart", "compare", "upload", "quick", "menu", "music",
             "rtc", "browse"}

InitProg ==
    /\ pc = "main"
    /\ arg = None
    /\ res = None
    /\ mode = None
    /\ log = <<>>
    /\ loc = NoLoc
    /\ outcome = None
    /\ asked = NoAsked
    /\ runs = 0

\* main() with an argument: the argument's command runs once
MainCli ==
    /\ pc = "main"
    /\ \E a \in CliArgs :
          LET cmd == Dispatch(a) IN
          /\ cmd \in Modelled \cup {"help", "unknown"}
          /\ mode' = "cli"
          /\ loc' = [cmd |-> cmd]
          /\ IF cmd \in Modelled
             THEN pc' = Entry(cmd) /\ outcome' = None
             ELSE pc' = "exit" /\ outcome' = cmd
    /\ UNCHANGED <<fnVars, log, asked, runs>>

\* main() without argument: main_menu()
MainMenu ==
    /\ pc = "main"
    /\ mode' = "menu"
    /\ pc' = "mm_status"
    /\ UNCHANGED <<fnVars, log, loc, outcome, asked, runs>>

\* main_menu: the top of the loop, check_device_connected for the status line
MmStatus ==
    /\ pc = "mm_status"
    /\ \E code \in ExitCodes : log' = <<Call("list", <<>>, code)>>
    /\ loc' = NoLoc
    /\ outcome' = None
    /\ pc' = "mm_prompt"
    /\ UNCHANGED <<fnVars, mode, asked, runs>>

\* the option number of a command in main_menu
OptionCmd(choice) ==
    CASE choice = 1 -> "status" [] choice = 2 -> "local" [] choice = 3 -> "cart"
      [] choice = 4 -> "compare" [] choice = 5 -> "upload" [] choice = 6 -> "quick"
      [] choice = 7 -> "menu" [] choice = 8 -> "music" [] choice = 9 -> "rtc"
      [] choice = 10 -> "browse" [] OTHER -> "exit"

MenuTexts ==
    { <<"0">>, <<"1">>, <<"2">>, <<"3">>, <<"4">>, <<"5">>, <<"6">>, <<"7">>,
      <<" ", "7", " ">>, <<"8">>, <<"9">>, <<"1", "0">>, <<"1", "1">>,
      <<"1", "2">>, <<"x">>, <<>> }

MenuInputs == {Line(x) : x \in MenuTexts} \cup {Interrupt}

\* main_menu: get_choice(len(options)) and the dispatch on its result
MmPrompt ==
    /\ pc = "mm_prompt"
    /\ \E inp \in MenuInputs :
          LET r == get_choice(NumOptions, inp) IN
          /\ Ask(inp, NumOptions)
          /\ IF ~r.ret THEN Goto("mm_prompt") /\ UNCHANGED <<log, loc, runs>>
             ELSE IF r.val = 0 \/ r.val = NumOptions
             THEN pc' = "exit" /\ outcome' = "goodbye" /\ UNCHANGED <<log, loc, runs>>
             ELSE /\ OptionCmd(r.val) \in Modelled
                  /\ runs < MaxRuns
                  /\ runs' = runs + 1
                  /\ pc' = Entry(OptionCmd(r.val))
                  /\ outcome' = None
                  /\ log' = <<>>
                  /\ loc' = [cmd |-> OptionCmd(r.val)]
    /\ UNCHANGED <<fnVars, mode>>

EnterTexts ==
    { <<>>, <<"x">> }

\* main_menu: input("Press Enter to continue..."), outside any try
MmContinue ==
    /\ pc = "mm_continue"
    /\ \E inp \in {Line(x) : x \in EnterTexts} \cup {Interrupt} :
          /\ Ask(inp, 0)
          /\ IF inp.kind = "interrupt" THEN Crash ELSE Goto("mm_status")
    /\ UNCHANGED <<fnVars, mode, log, loc, runs>>

\* exit codes run_sc64_command hands to a probe: the deployer's, or -1 when
\* the executable is missing
ProbeCodes == ExitCodes \cup {-1}

\* check_device_connected() whose answer the command does not look at
CheckDevice_Unheeded(at, next) ==
    /\ pc = at
    /\ \E code \in ProbeCodes, found \in BOOLEAN :
          /\ log' = Append(log, Call("list", <<>>, code))
          /\ Goto(next)
    /\ UNCHANGED <<fnVars, mode, loc, asked, runs>>

\* check_device_connected() at the head of a command
CheckDevice(at, next) ==
    /\ pc = at
    /\ \E code \in ProbeCodes, found \in BOOLEAN :
          /\ log' = Append(log, Call("list", <<>>, code))
          /\ IF code = 0 /\ found THEN Goto(next) ELSE Return("not_connected")
    /\ UNCHANGED <<fnVars, mode, loc, asked, runs>>

\* is_sd_card_accessible() at the head of a command
CheckSd(at, next) ==
    /\ pc = at
    /\ \E code \in ProbeCodes, pipe \in BOOLEAN :
          /\ log' = Append(log, Call("sd_ls", <<>>, code))
          /\ IF code = 0 /\ pipe THEN Goto(next) ELSE Return("sd_not_accessible")
    /\ UNCHANGED <<fnVars, mode, loc, asked, runs>>

(***************************************************************************)
(* cmd_update_menu                                                         *)
(***************************************************************************)
UmCheckDevice == CheckDevice("um_check_device", "um_check_sd")
UmCheckSd     == CheckSd("um_check_sd", "um_list_versions")

\* list_local_menu_versions(), whose result is the sorted list of the menu
\* files menu_versions/ holds (here numbered in sorted order), and the set-up
\* of the pages
UmListVersions ==
    /\ pc = "um_list_versions"
    /\ \E total_items \in 0..MaxMenuFiles :
          IF total_items = 0
          THEN Return("no_menu_files") /\ UNCHANGED loc
          ELSE /\ Goto("um_select")
               /\ loc' = [cmd |-> "menu",
                          menu_versions |-> [k \in 1..total_items |-> k],
                          total_pages |-> (total_items + items_per_page - 1) \div items_per_page,
                          current_page |-> 0,
                          selected_menu |-> 0,
                          backup_saved |-> FALSE]
    /\ UNCHANGED <<fnVars, mode, log, asked, runs>>

Min(a, b) == IF a <= b THEN a ELSE b

\* menu_versions[start_idx:end_idx] of the current page
PageItems(l) ==
    LET start_idx == l.current_page * items_per_page
        end_idx   == Min(start_idx + items_per_page, Len(l.menu_versions))
    IN  SubSeq(l.menu_versions, start_idx + 1, end_idx)

SelectTexts ==
    { <<"0">>, <<"1">>, <<"2">>, <<"9">>, <<"1", "0">>, <<" ", "3", " ">>, <<"p">>,
      <<"P">>, <<"n">>, <<" ", "N", " ">>, <<"x">>, <<>>, <<"y">>, <<"-", "1">> }

SelectInputs == {Line(x) : x \in SelectTexts} \cup {Interrupt}

\* the selection loop taking n for the next page whether or not there is one
UmSelect_NextUnguarded ==
    /\ pc = "um_select"
    /\ \E inp \in SelectInputs :
          LET page_items == PageItems(loc)
              user_input == Lower(Strip(inp.text))
              n          == ParseInt(user_input)
          IN
          /\ Ask(inp, Len(page_items))
          /\ IF inp.kind = "interrupt" THEN Return("cancelled") /\ UNCHANGED <<loc, log>>
             ELSE IF user_input = Str_0 THEN Return("cancelled") /\ UNCHANGED <<loc, log>>
             ELSE IF user_input = Str_p /\ loc.current_page > 0
             THEN /\ loc' = [loc EXCEPT !.current_page = @ - 1]
                  /\ Goto("um_select") /\ UNCHANGED log
             ELSE IF user_input = Str_n
             THEN /\ loc' = [loc EXCEPT !.current_page = @ + 1]
                  /\ Goto("um_select") /\ UNCHANGED log
             ELSE IF n.ok /\ 1 <= n.val /\ n.val <= Len(page_items)
             THEN /\ loc' = [loc EXCEPT !.selected_menu = page_items[n.val]]
                  /\ log' = Append(log, Answer("select", inp.text))
                  /\ Goto("um_confirm")
             ELSE Goto("um_select") /\ UNCHANGED <<loc, log>>
    /\ UNCHANGED <<fnVars, mode, runs>>

\* one pass of the selection loop: the page is shown and the input handled
UmSelect ==
    /\ pc = "um_select"
    /\ \E inp \in SelectInputs :
          LET page_items == PageItems(loc)
              user_input == Lower(Strip(inp.text))
              n          == ParseInt(user_input)
          IN
          /\ Ask(inp, Len(page_items))
          /\ IF inp.kind = "interrupt" THEN Return("cancelled") /\ UNCHANGED <<loc, log>>
             ELSE IF user_input = Str_0 THEN Return("cancelled") /\ UNCHANGED <<loc, log>>
             ELSE IF user_input = Str_p /\ loc.current_page > 0
             THEN /\ loc' = [loc EXCEPT !.current_page = @ - 1]
                  /\ Goto("um_select") /\ UNCHANGED log
             ELSE IF user_input = Str_n /\ loc.current_page < loc.total_pages - 1
             THEN /\ loc' = [loc EXCEPT !.current_page = @ + 1]
                  /\ Goto("um_select") /\ UNCHANGED log
             ELSE IF n.ok /\ 1 <= n.val /\ n.val <= Len(page_items)
             THEN /\ loc' = [loc EXCEPT !.selected_menu = page_items[n.val]]
                  /\ log' = Append(log, Answer("select", inp.text))
                  /\ Goto("um_confirm")
             ELSE Goto("um_select") /\ UNCHANGED <<loc, log>>
    /\ UNCHANGED <<fnVars, mode, runs>>

ConfirmTexts ==
    { <<"y">>, <<"Y">>, <<" ", "y", " ">>, <<"n">>, <<"y", "e", "s">>, <<>>, <<"0">> }

ConfirmInputs == {Line(x) : x \in ConfirmTexts} \cup {Interrupt}

\* the confirmation taking every answer but n for a yes
UmConfirm_DefaultYes ==
    /\ pc = "um_confirm"
    /\ \E inp \in ConfirmInputs :
          /\ Ask(inp, 0)
          /\ IF inp.kind = "interrupt" THEN Crash /\ UNCHANGED log
             ELSE LET confirm == Lower(Strip(inp.text)) IN
                  /\ log' = Append(log, Answer("confirm", inp.text))
                  /\ IF confirm = Str_n THEN Return("cancelled") ELSE Goto("um_backup")
    /\ UNCHANGED <<fnVars, mode, loc, runs>>

\* input("Proceed? (y/n): "), outside any try
UmConfirm ==
    /\ pc = "um_confirm"
    /\ \E inp \in ConfirmInputs :
          /\ Ask(inp, 0)
          /\ IF inp.kind = "interrupt" THEN Crash /\ UNCHANGED log
             ELSE LET confirm == Lower(Strip(inp.text)) IN
                  /\ log' = Append(log, Answer("confirm", inp.text))
                  /\ IF confirm # Str_y THEN Return("cancelled") ELSE Goto("um_backup")
    /\ UNCHANGED <<fnVars, mode, loc, runs>>

\* the backup step of cmd_update_menu going on to the upload whatever
\* backup_menu_from_cart returned
UmBackup_IgnoreFailure ==
    /\ pc = "um_backup"
    /\ \E code \in ExitCodes :
          /\ log' = Append(log, Call("download", SD_MENU_PATH, code))
          /\ loc' = [loc EXCEPT !.backup_saved = (code = 0)]
          /\ Goto("um_upload")
    /\ UNCHANGED <<fnVars, mode, asked, runs>>

\* backup_menu_from_cart(): sd download of the remote menu into a new file of
\* menu_versions/, which is there once the deployer has succeeded;
\* cmd_update_menu returns when it failed
UmBackup ==
    /\ pc = "um_backup"
    /\ \E code \in ExitCodes :
          /\ log' = Append(log, Call("download", SD_MENU_PATH, code))
          /\ loc' = [loc EXCEPT !.backup_saved = (code = 0)]
          /\ IF code = 0 THEN Goto("um_upload") ELSE Return("backup_failed")
    /\ UNCHANGED <<fnVars, mode, asked, runs>>

\* the upload step answering a failed upload by putting the backup back on
\* the cart and dropping the local copy
UmUpload_RestoreOnFailure ==
    /\ pc = "um_upload"
    /\ \E code \in ExitCodes :
          IF code = 0
          THEN /\ log' = Append(log, Call("upload", SD_MENU_PATH, code))
               /\ Return("menu_updated") /\ UNCHANGED loc
          ELSE /\ log' = log \o <<Call("upload", SD_MENU_PATH, code),
                                   Call("upload", SD_MENU_PATH, 0)>>
               /\ loc' = [loc EXCEPT !.backup_saved = FALSE]
               /\ Return("upload_failed")
    /\ UNCHANGED <<fnVars, mode, asked, runs>>

\* upload_menu_to_cart(selected_menu); the backup file is left as it is
UmUpload ==
    /\ pc = "um_upload"
    /\ \E code \in ExitCodes :
          /\ log' = Append(log, Call("upload", SD_MENU_PATH, code))
          /\ IF code = 0 THEN Return("menu_updated") ELSE Return("upload_failed")
    /\ UNCHANGED <<fnVars, mode, loc, asked, runs>>

(***************************************************************************)
(* cmd_upload                                                              *)
(***************************************************************************)
UpCheckDevice == CheckDevice("up_check_device", "up_check_sd")
UpCheckSd     == CheckSd("up_check_sd", "up_compare")

RECURSIVE RStripChar(_, _)
\* str.rstrip(c)
RStripChar(s, c) ==
    IF s # <<>> /\ s[Len(s)] = c THEN RStripChar(SubSeq(s, 1, Len(s) - 1), c) ELSE s

\* the destination upload_rom_to_sd builds
RomDest(sd_path, name) == RStripChar(sd_path, "/") \o <<"/">> \o name

\* cmd_compare() as called by cmd_upload: list_local_roms()
UpCompare ==
    /\ pc = "up_compare"
    /\ \E local_roms \in LocalLists :
          IF local_roms = <<>>
          THEN Return("nothing_to_upload") /\ UNCHANGED loc
          ELSE /\ Goto("up_compare_sd")
               /\ loc' = [cmd |-> "upload", local_roms |-> local_roms, missing |-> <<>>,
                          choices |-> <<>>, dest_path |-> <<"/">>, done |-> 0,
                          success_count |-> 0, summary |-> <<>>]
    /\ UNCHANGED <<fnVars, mode, log, asked, runs>>

\* cmd_compare(): is_sd_card_accessible(); when it fails every local ROM
\* counts as missing
UpCompareSd ==
    /\ pc = "up_compare_sd"
    /\ \E code \in ExitCodes, pipe \in BOOLEAN :
          /\ log' = Append(log, Call("sd_ls", <<>>, code))
          /\ IF code = 0 /\ pipe
             THEN Goto("up_compare_scan") /\ UNCHANGED loc
             ELSE /\ Goto("up_select")
                  /\ loc' = [loc EXCEPT !.missing =
                                cmd_compare(loc.local_roms, FALSE, <<>>, <<>>).ret]
    /\ UNCHANGED <<fnVars, mode, asked, runs>>

\* cmd_compare(): the walk get_all_sd_roms() and the partition; cmd_upload
\* returns when nothing is missing
UpCompareScan ==
    /\ pc = "up_compare_scan"
    /\ \E sd_roms \in SeqsUpTo(RemoteRoms, MaxScan), order \in ExtOrders :
          LET r == cmd_compare(loc.local_roms, TRUE, sd_roms, order) IN
          /\ log' = Append(log, Call("sd_ls_walk", <<>>, 0))
          /\ IF r.ret = <<>>
             THEN Return("nothing_to_upload") /\ UNCHANGED loc
             ELSE Goto("up_select") /\ loc' = [loc EXCEPT !.missing = r.ret]
    /\ UNCHANGED <<fnVars, mode, asked, runs>>

PickTexts ==
    { <<"0">>, <<"a", "l", "l">>, <<" ", "A", "L", "L", " ">>, <<"1">>,
      <<"2", ",", "1">>, <<"9">>, <<"1", ",", "9">>, <<"x">>, <<>>,
      <<"1", ",", ",", "2">> }

PickInputs == {Line(x) : x \in PickTexts} \cup {Interrupt}

DestTexts ==
    { <<"0">>, <<"1">>, <<"2">>, <<" ", "2", " ">>, <<"3">>, <<"x">>, <<>> }

DestInputs == {Line(x) : x \in DestTexts} \cup {Interrupt}

\* get_multi_choice(len(missing)) and the test of its result
UpSelect ==
    /\ pc = "up_select"
    /\ \E inp \in PickInputs :
          LET r == get_multi_choice(Len(loc.missing), inp) IN
          /\ Ask(inp, Len(loc.missing))
          /\ IF ~r.ret THEN Goto("up_select") /\ UNCHANGED loc
             ELSE IF r.val = <<>> THEN Return("cancelled") /\ UNCHANGED loc
             ELSE Goto("up_dest") /\ loc' = [loc EXCEPT !.choices = r.val]
    /\ UNCHANGED <<fnVars, mode, log, runs>>

\* get_choice(2) for the destination
UpDest ==
    /\ pc = "up_dest"
    /\ \E inp \in DestInputs :
          LET r == get_choice(2, inp) IN
          /\ Ask(inp, 2)
          /\ IF ~r.ret THEN Goto("up_dest")
             ELSE IF r.val = 0 THEN Return("cancelled")
             ELSE IF r.val = 2 THEN Goto("up_path")
             ELSE Goto("up_upload")
    /\ UNCHANGED <<fnVars, mode, log, loc, runs>>

PathTexts ==
    { <<"/", "r", "o", "m", "s">>, <<"r", "o", "m", "s">>, <<" ", "/", "r", "/", " ">>,
      <<>> }

\* input("Enter SD card path (e.g. /roms): "), outside any try
UpPath ==
    /\ pc = "up_path"
    /\ \E inp \in {Line(x) : x \in PathTexts} \cup {Interrupt} :
          /\ Ask(inp, 0)
          /\ IF inp.kind = "interrupt" THEN Crash /\ UNCHANGED loc
             ELSE LET dest_path == Strip(inp.text) IN
                  /\ loc' = [loc EXCEPT !.dest_path =
                                IF StartsWith(dest_path, <<"/">>) THEN dest_path
                                ELSE <<"/">> \o dest_path]
                  /\ Goto("up_upload")
    /\ UNCHANGED <<fnVars, mode, log, runs>>

\* one pass of the upload loop: upload_rom_to_sd(missing[idx - 1], dest_path);
\* after the last pass the summary "Uploaded success_count/len(choices)" is
\* printed and the command returns
UpUpload ==
    /\ pc = "up_upload"
    /\ \E code \in ExitCodes :
          LET idx == loc.choices[loc.done + 1]
              rom == loc.missing[idx]
              l2  == [loc EXCEPT !.done = @ + 1,
                                 !.success_count = IF code = 0 THEN @ + 1 ELSE @]
          IN
          /\ log' = Append(log, Call("upload", RomDest(loc.dest_path, rom.name), code))
          /\ IF l2.done = Len(loc.choices)
             THEN /\ loc' = [l2 EXCEPT !.summary = <<l2.success_count, Len(loc.choices)>>]
                  /\ Return("uploaded")
             ELSE loc' = l2 /\ Goto("up_upload")
    /\ UNCHANGED <<fnVars, mode, asked, runs>>

Upload ==
    \/ UpCheckDevice \/ UpCheckSd \/ UpCompare \/ UpCompareSd \/ UpCompareScan
    \/ UpSelect \/ UpDest \/ UpPath \/ UpUpload

(***************************************************************************)
(* cmd_browse_sd                                                           *)
(***************************************************************************)
BrCheckDevice == CheckDevice("br_check_device", "br_check_sd")

\* is_sd_card_accessible(), then current_path = "/" and history = []
BrCheckSd ==
    /\ pc = "br_check_sd"
    /\ \E code \in ProbeCodes, pipe \in BOOLEAN :
          /\ log' = Append(log, Call("sd_ls", <<>>, code))
          /\ IF code = 0 /\ pipe
             THEN /\ Goto("br_list")
                  /\ loc' = [cmd |-> "browse", current_path |-> <<"/">>, history |-> <<>>,
                             files |-> <<>>,
                             item_map |-> [bound |-> FALSE, items |-> <<>>],
                             item |-> 0, renders |-> 0]
             ELSE Return("sd_not_accessible") /\ UNCHANGED loc
    /\ UNCHANGED <<fnVars, mode, asked, runs>>

BrowseStdouts ==
    { <<>>, <<"d", " ", "-", "-", "-", "-", " ", "|", " ", "a">>,
      <<"d", " ", "-", "-", "-", "-", " ", "|", " ", "/", "m", "\n", "f", " ", "1", "M", " ", "|", " ", "r", ".", "z", "6", "4">>,
      <<"f", " ", "1", "M", " ", "|", " ", "r", ".", "z", "6", "4", "\n", "d", " ", "-", "-", " ", "|", " ", "a", "\n">>,
      <<"f", " ", "2", "M", " ", "|", " ", "B", ".", "b", "i", "n">> }

IsDirEntry(f)  == f.type = "dir"
IsFileEntry(f) == f.type = "file"

\* the top of the browser's loop: the listing of current_path is fetched and,
\* unless it is empty, item_map is rebuilt: directories first, then files,
\* each sorted by lowercased name
BrList ==
    /\ pc = "br_list"
    /\ loc.renders < MaxRenders
    /\ \E code \in ExitCodes, stdout \in BrowseStdouts :
          LET files == list_sd_card_files(code, stdout)
              dirs  == SortedByName(SelectSeq(files, IsDirEntry))
              regular_files == SortedByName(SelectSeq(files, IsFileEntry))
          IN
          /\ log' = Append(log, Call("sd_ls",
                        IF loc.current_path # <<"/">> THEN loc.current_path ELSE <<>>, code))
          /\ loc' = [loc EXCEPT !.files = files,
                                !.renders = @ + 1,
                                !.item_map = IF files = <<>> THEN @
                                             ELSE [bound |-> TRUE, items |-> dirs \o regular_files]]
    /\ Goto("br_prompt")
    /\ UNCHANGED <<fnVars, mode, asked, runs>>

RECURSIVE LastIndexOf(_, _)
\* 1-based position of the last c in s; 0 when there is none
LastIndexOf(s, c) ==
    IF s = <<>> THEN 0
    ELSE IF s[Len(s)] = c THEN Len(s)
    ELSE LastIndexOf(SubSeq(s, 1, Len(s) - 1), c)

\* current_path.rstrip("/").rsplit("/", 1)[0], or "/" when that is empty
ParentByTruncation(path) ==
    LET q == RStripChar(path, "/")
        i == LastIndexOf(q, "/")
        first == IF i = 0 THEN q ELSE SubSeq(q, 1, i - 1)
    IN  IF first # <<>> THEN first ELSE <<"/">>

BrowseTexts ==
    { <<"b">>, <<" ", "B", " ">>, <<"0">>, <<"1">>, <<"2">>, <<"3">>, <<"x">>, <<>> }

BrowseInputs == {Line(x) : x \in BrowseTexts} \cup {Interrupt}

\* the browser's prompt with history.append after the move into the directory
BrPrompt_PushAfterMove ==
    /\ pc = "br_prompt"
    /\ \E inp \in BrowseInputs :
          LET choice == Lower(Strip(inp.text))
              n      == ParseInt(choice)
          IN
          /\ Ask(inp, Len(loc.files))
          /\ IF inp.kind = "interrupt" THEN Return("browse_left") /\ UNCHANGED loc
             ELSE IF choice = Str_b THEN Return("browse_left") /\ UNCHANGED loc
             ELSE IF choice = Str_0 /\ loc.current_path # <<"/">>
             THEN /\ Goto("br_list")
                  /\ IF loc.history # <<>>
                     THEN loc' = [loc EXCEPT !.current_path = loc.history[Len(loc.history)],
                                             !.history = SubSeq(@, 1, Len(@) - 1)]
                     ELSE loc' = [loc EXCEPT !.current_path = ParentByTruncation(@)]
             ELSE IF ~n.ok THEN Goto("br_list") /\ UNCHANGED loc
             ELSE IF ~loc.item_map.bound THEN Raise("UnboundLocalError") /\ UNCHANGED loc
             ELSE IF n.val \notin DOMAIN loc.item_map.items THEN Goto("br_list") /\ UNCHANGED loc
             ELSE LET item == loc.item_map.items[n.val] IN
                  IF item.type = "dir"
                  THEN /\ Goto("br_list")
                       /\ loc' = [loc EXCEPT
                                    !.history = Append(@,
                                        IF loc.current_path = <<"/">> THEN item.path
                                        ELSE RStripChar(loc.current_path, "/") \o <<"/">> \o item.name),
                                    !.current_path =
                                        IF loc.current_path = <<"/">> THEN item.path
                                        ELSE RStripChar(loc.current_path, "/") \o <<"/">> \o item.name]
                  ELSE Goto("br_ack") /\ loc' = [loc EXCEPT !.item = n.val]
    /\ UNCHANGED <<fnVars, mode, log, runs>>

\* the browser's prompt entering a directory without history.append
BrPrompt_NoPush ==
    /\ pc = "br_prompt"
    /\ \E inp \in BrowseInputs :
          LET choice == Lower(Strip(inp.text))
              n      == ParseInt(choice)
          IN
          /\ Ask(inp, Len(loc.files))
          /\ IF inp.kind = "interrupt" THEN Return("browse_left") /\ UNCHANGED loc
             ELSE IF choice = Str_b THEN Return("browse_left") /\ UNCHANGED loc
             ELSE IF choice = Str_0 /\ loc.current_path # <<"/">>
             THEN /\ Goto("br_list")
                  /\ IF loc.history # <<>>
                     THEN loc' = [loc EXCEPT !.current_path = loc.history[Len(loc.history)],
                                             !.history = SubSeq(@, 1, Len(@) - 1)]
                     ELSE loc' = [loc EXCEPT !.current_path = ParentByTruncation(@)]
             ELSE IF ~n.ok THEN Goto("br_list") /\ UNCHANGED loc
             ELSE IF ~loc.item_map.bound THEN Raise("UnboundLocalError") /\ UNCHANGED loc
             ELSE IF n.val \notin DOMAIN loc.item_map.items THEN Goto("br_list") /\ UNCHANGED loc
             ELSE LET item == loc.item_map.items[n.val] IN
                  IF item.type = "dir"
                  THEN /\ Goto("br_list")
                       /\ loc' = [loc EXCEPT
                                    !.current_path =
                                        IF loc.current_path = <<"/">> THEN item.path
                                        ELSE RStripChar(loc.current_path, "/") \o <<"/">> \o item.name]
                  ELSE Goto("br_ack") /\ loc' = [loc EXCEPT !.item = n.val]
    /\ UNCHANGED <<fnVars, mode, log, runs>>

\* input("Enter choice: ") and what the loop does with it
BrPrompt ==
    /\ pc = "br_prompt"
    /\ \E inp \in BrowseInputs :
          LET choice == Lower(Strip(inp.text))
              n      == ParseInt(choice)
          IN
          /\ Ask(inp, Len(loc.files))
          /\ IF inp.kind = "interrupt" THEN Return("browse_left") /\ UNCHANGED loc
             ELSE IF choice = Str_b THEN Return("browse_left") /\ UNCHANGED loc
             ELSE IF choice = Str_0 /\ loc.current_path # <<"/">>
             THEN /\ Goto("br_list")
                  /\ IF loc.history # <<>>
                     THEN loc' = [loc EXCEPT !.current_path = loc.history[Len(loc.history)],
                                             !.history = SubSeq(@, 1, Len(@) - 1)]
                     ELSE loc' = [loc EXCEPT !.current_path = ParentByTruncation(@)]
             ELSE IF ~n.ok THEN Goto("br_list") /\ UNCHANGED loc
             \* item_map is a local that only a non-empty listing assigns
             ELSE IF ~loc.item_map.bound THEN Raise("UnboundLocalError") /\ UNCHANGED loc
             ELSE IF n.val \notin DOMAIN loc.item_map.items THEN Goto("br_list") /\ UNCHANGED loc
             ELSE LET item == loc.item_map.items[n.val] IN
                  IF item.type = "dir"
                  THEN /\ Goto("br_list")
                       /\ loc' = [loc EXCEPT
                                    !.history = Append(@, loc.current_path),
                                    !.current_path =
                                        IF loc.current_path = <<"/">> THEN item.path
                                        ELSE RStripChar(loc.current_path, "/") \o <<"/">> \o item.name]
                  ELSE Goto("br_ack") /\ loc' = [loc EXCEPT !.item = n.val]
    /\ UNCHANGED <<fnVars, mode, log, runs>>

\* input("Press Enter to continue...") after the file information, inside
\* the loop's try
BrAck ==
    /\ pc = "br_ack"
    /\ \E inp \in {Line(x) : x \in EnterTexts} \cup {Interrupt} :
          /\ Ask(inp, 0)
          /\ IF inp.kind = "interrupt" THEN Return("browse_left") ELSE Goto("br_list")
    /\ UNCHANGED <<fnVars, mode, log, loc, runs>>

BrowseSd ==
    \/ BrCheckDevice \/ BrCheckSd \/ BrList \/ BrPrompt \/ BrAck

(***************************************************************************)
(* cmd_status, cmd_list_local, cmd_list_cart, cmd_compare, cmd_sync_rtc    *)
(***************************************************************************)
StCheckDevice == CheckDevice("st_check_device", "st_info")

\* run_sc64_command(["info"]); its exit code only decides what is printed
StInfo ==
    /\ pc = "st_info"
    /\ \E code \in ExitCodes : log' = Append(log, Call("info", <<>>, code))
    /\ Goto("st_check_sd")
    /\ UNCHANGED <<fnVars, mode, loc, asked, runs>>

\* is_sd_card_accessible() at the end of cmd_status
StCheckSd ==
    /\ pc = "st_check_sd"
    /\ \E code \in ProbeCodes, pipe \in BOOLEAN :
          /\ log' = Append(log, Call("sd_ls", <<>>, code))
          /\ IF code = 0 /\ pipe THEN Return("sd_accessible") ELSE Return("sd_not_accessible")
    /\ UNCHANGED <<fnVars, mode, loc, asked, runs>>

Status == StCheckDevice \/ StInfo \/ StCheckSd

\* cmd_list_local(): list_local_roms() and the listing
LcList ==
    /\ pc = "lc_list"
    /\ \E roms \in LocalLists :
          IF roms = <<>> THEN Return("no_local_roms") ELSE Return("local_listed")
    /\ UNCHANGED <<fnVars, mode, log, loc, asked, runs>>

CtCheckSd == CheckSd("ct_check_sd", "ct_list_root")

\* cmd_list_cart(): list_sd_card_files() of the root
CtListRoot ==
    /\ pc = "ct_list_root"
    /\ \E code \in ExitCodes, stdout \in BrowseStdouts :
          /\ log' = Append(log, Call("sd_ls", <<>>, code))
          /\ IF list_sd_card_files(code, stdout) = <<>>
             THEN Return("cart_empty")
             ELSE Goto("ct_walk")
    /\ UNCHANGED <<fnVars, mode, loc, asked, runs>>

\* cmd_list_cart(): get_all_sd_roms() and the listing of what it found
CtWalk ==
    /\ pc = "ct_walk"
    /\ log' = Append(log, Call("sd_ls_walk", <<>>, 0))
    /\ Return("cart_listed")
    /\ UNCHANGED <<fnVars, mode, loc, asked, runs>>

ListCart == CtCheckSd \/ CtListRoot \/ CtWalk

\* cmd_compare() run as a command: list_local_roms()
CmCompare ==
    /\ pc = "cm_compare"
    /\ \E local_roms \in LocalLists :
          IF local_roms = <<>>
          THEN Return("no_local_roms") /\ UNCHANGED loc
          ELSE /\ Goto("cm_compare_sd")
               /\ loc' = [cmd |-> "compare", local_roms |-> local_roms, missing |-> <<>>]
    /\ UNCHANGED <<fnVars, mode, log, asked, runs>>

\* cmd_compare(): is_sd_card_accessible(); when it fails every local ROM is
\* shown as missing and the command returns
CmCompareSd ==
    /\ pc = "cm_compare_sd"
    /\ \E code \in ProbeCodes, pipe \in BOOLEAN :
          /\ log' = Append(log, Call("sd_ls", <<>>, code))
          /\ IF code = 0 /\ pipe
             THEN Goto("cm_compare_scan") /\ UNCHANGED loc
             ELSE /\ Return("compared_without_cart")
                  /\ loc' = [loc EXCEPT !.missing =
                                cmd_compare(loc.local_roms, FALSE, <<>>, <<>>).ret]
    /\ UNCHANGED <<fnVars, mode, asked, runs>>

\* cmd_compare(): the walk get_all_sd_roms() and the partition
CmCompareScan ==
    /\ pc = "cm_compare_scan"
    /\ \E sd_roms \in SeqsUpTo(RemoteRoms, MaxScan), order \in ExtOrders :
          LET r == cmd_compare(loc.local_roms, TRUE, sd_roms, order) IN
          /\ log' = Append(log, Call("sd_ls_walk", <<>>, 0))
          /\ loc' = [loc EXCEPT !.missing = r.ret]
          /\ Return("compared")
    /\ UNCHANGED <<fnVars, mode, asked, runs>>

CompareCmd == CmCompare \/ CmCompareSd \/ CmCompareScan

RtCheckDevice == CheckDevice("rt_check_device", "rt_set")

\* run_sc64_command(["set", "rtc"])
RtSet ==
    /\ pc = "rt_set"
    /\ \E returncode \in ExitCodes :
          /\ log' = Append(log, Call("set_rtc", <<>>, returncode))
          /\ IF returncode = 0 THEN Return("rtc_synced") ELSE Return("rtc_failed")
    /\ UNCHANGED <<fnVars, mode, loc, asked, runs>>

SyncRtc == RtCheckDevice \/ RtSet

(***************************************************************************)
(* cmd_quick_upload                                                        *)
(***************************************************************************)
QkCheckDevice == CheckDevice("qk_check_device", "qk_check_sd")
QkCheckSd     == CheckSd("qk_check_sd", "qk_list")

\* list_local_roms() and the numbered listing
QkList ==
    /\ pc = "qk_list"
    /\ \E local_roms \in LocalLists :
          IF local_roms = <<>>
          THEN Return("no_local_roms") /\ UNCHANGED loc
          ELSE /\ Goto("qk_select")
               /\ loc' = [cmd |-> "quick", local_roms |-> local_roms, choices |-> <<>>,
                          done |-> 0, summary |-> <<>>]
    /\ UNCHANGED <<fnVars, mode, log, asked, runs>>

\* get_multi_choice(len(local_roms)) and the test of its result
QkSelect ==
    /\ pc = "qk_select"
    /\ \E inp \in PickInputs :
          LET r == get_multi_choice(Len(loc.local_roms), inp) IN
          /\ Ask(inp, Len(loc.local_roms))
          /\ IF ~r.ret THEN Goto("qk_select") /\ UNCHANGED loc
             ELSE IF r.val = <<>> THEN Return("cancelled") /\ UNCHANGED loc
             ELSE Goto("qk_upload") /\ loc' = [loc EXCEPT !.choices = r.val]
    /\ UNCHANGED <<fnVars, mode, log, runs>>

\* one pass of the loop of lines 439-441 answering every failure by giving up
QkUpload_StopAtFailure ==
    /\ pc = "qk_upload"
    /\ \E code \in ExitCodes :
          LET idx == loc.choices[loc.done + 1]
              rom == loc.local_roms[idx]
          IN
          /\ log' = Append(log, Call("upload", RomDest(<<"/">>, rom.name), code))
          /\ loc' = [loc EXCEPT !.done = @ + 1]
          /\ IF loc.done + 1 = Len(loc.choices) \/ code # 0
             THEN Return("quick_done") ELSE Goto("qk_upload")
    /\ UNCHANGED <<fnVars, mode, asked, runs>>

\* one pass of the loop of lines 439-441: upload_rom_to_sd(local_roms[idx - 1],
\* "/"), its result dropped; after the last pass the command returns, nothing
\* more printed
QkUpload ==
    /\ pc = "qk_upload"
    /\ \E code \in ExitCodes :
          LET idx == loc.choices[loc.done + 1]
              rom == loc.local_roms[idx]
          IN
          /\ log' = Append(log, Call("upload", RomDest(<<"/">>, rom.name), code))
          /\ loc' = [loc EXCEPT !.done = @ + 1]
          /\ IF loc.done + 1 = Len(loc.choices)
             THEN Return("quick_done") ELSE Goto("qk_upload")
    /\ UNCHANGED <<fnVars, mode, asked, runs>>

QuickUpload == QkCheckDevice \/ QkCheckSd \/ QkList \/ QkSelect \/ QkUpload

(***************************************************************************)
(* cmd_menu_music                                                          *)
(***************************************************************************)
SD_MENU_MUSIC_PATH == <<"/", "m", "e", "n", "u", "/", "b", "g", ".", "m", "p", "3">>

Str_mp3 == <<".", "m", "p", "3">>

\* entries menu_music/ may hold
MusicPool ==
    { [dir |-> <<>>, name |-> <<"b", ".", "m", "p", "3">>, isfile |-> TRUE],
      [dir |-> <<>>, name |-> <<"A", ".", "M", "P", "3">>, isfile |-> TRUE],
      [dir |-> <<>>, name |-> <<"c", ".", "t", "x", "t">>, isfile |-> TRUE],
      [dir |-> <<>>, name |-> <<"d", ".", "m", "p", "3">>, isfile |-> FALSE] }

\* the orders in which MENU_MUSIC_DIR.iterdir() may yield what the directory holds
MusicDirs ==
    UNION { Permutations_(S) : S \in {T \in SUBSET MusicPool : Cardinality(T) <= MaxMusic} }

IsMp3File(e) == e.isfile /\ Lower(Suffix(e.name)) = Str_mp3

\* list_local_music() on what iterdir() yields
list_local_music(walk) == SortedByName(SelectSeq(walk, IsMp3File))

NoMp3 == [dir |-> <<>>, name |-> <<>>, isfile |-> FALSE]

\* options_map with the remove option offered whatever the stat said
music_options_AlwaysRemove(music_files, has_music) ==
    [k \in 1..Len(music_files) |-> [action |-> "set", mp3 |-> music_files[k]]]
    \o <<[action |-> "remove", mp3 |-> NoMp3]>>

\* options_map of cmd_menu_music, as the sequence of its values by option number
music_options(music_files, has_music) ==
    [k \in 1..Len(music_files) |-> [action |-> "set", mp3 |-> music_files[k]]]
    \o (IF has_music THEN <<[action |-> "remove", mp3 |-> NoMp3]>> ELSE <<>>)

MuCheckDevice == CheckDevice("mu_check_device", "mu_check_sd")
MuCheckSd     == CheckSd("mu_check_sd", "mu_stat")

\* has_music = check_menu_music_exists(): sd stat of the remote music path
MuStat ==
    /\ pc = "mu_stat"
    /\ \E code \in ExitCodes :
          /\ log' = Append(log, Call("stat", SD_MENU_MUSIC_PATH, code))
          /\ loc' = [cmd |-> "music", has_music |-> (code = 0)]
    /\ Goto("mu_list")
    /\ UNCHANGED <<fnVars, mode, asked, runs>>

\* list_local_music() and the options built from it; the command returns when
\* there is no option
MuList ==
    /\ pc = "mu_list"
    /\ \E walk \in MusicDirs :
          LET music_files == list_local_music(walk)
              options_map == music_options(music_files, loc.has_music)
          IN
          /\ loc' = [cmd |-> "music", has_music |-> loc.has_music, walk |-> walk,
                     music_files |-> music_files, options_map |-> options_map,
                     choice |-> 0]
          /\ IF options_map = <<>> THEN Return("no_actions") ELSE Goto("mu_prompt")
    /\ UNCHANGED <<fnVars, mode, log, asked, runs>>

MusicTexts ==
    { <<"0">>, <<"1">>, <<"2">>, <<" ", "3", " ">>, <<"4">>, <<"x">>, <<>> }

MusicInputs == {Line(x) : x \in MusicTexts} \cup {Interrupt}

\* get_choice(option_num - 1) and the look-up of the chosen action
MuPrompt ==
    /\ pc = "mu_prompt"
    /\ \E inp \in MusicInputs :
          LET r == get_choice(Len(loc.options_map), inp) IN
          /\ Ask(inp, Len(loc.options_map))
          /\ IF ~r.ret THEN Goto("mu_prompt") /\ UNCHANGED loc
             ELSE IF r.val = 0 THEN Return("cancelled") /\ UNCHANGED loc
             ELSE /\ loc' = [loc EXCEPT !.choice = r.val]
                  /\ IF loc.options_map[r.val].action = "remove"
                     THEN Goto("mu_remove") ELSE Goto("mu_upload")
    /\ UNCHANGED <<fnVars, mode, log, runs>>

\* delete_menu_music(), its result dropped, then "Background music removed!"
MuRemove ==
    /\ pc = "mu_remove"
    /\ \E code \in ExitCodes : log' = Append(log, Call("rm", SD_MENU_MUSIC_PATH, code))
    /\ Return("music_removed")
    /\ UNCHANGED <<fnVars, mode, loc, asked, runs>>

\* upload_menu_music(mp3_file)
MuUpload ==
    /\ pc = "mu_upload"
    /\ \E code \in ExitCodes :
          /\ log' = Append(log, Call("upload", SD_MENU_MUSIC_PATH, code))
          /\ IF code = 0 THEN Return("music_set") ELSE Return("music_failed")
    /\ UNCHANGED <<fnVars, mode, loc, asked, runs>>

MenuMusic == MuCheckDevice \/ MuCheckSd \/ MuStat \/ MuList \/ MuPrompt \/ MuRemove \/ MuUpload

UpdateMenu ==
    \/ UmCheckDevice \/ UmCheckSd \/ UmListVersions
    \/ UmSelect \/ UmConfirm \/ UmBackup \/ UmUpload

Next ==
    \/ MainCli \/ MainMenu
    \/ MmStatus \/ MmPrompt \/ MmContinue
    \/ Status \/ LcList \/ ListCart \/ CompareCmd
    \/ Upload \/ QuickUpload
    \/ UpdateMenu \/ MenuMusic
    \/ SyncRtc
    \/ BrowseSd

Spec == InitProg /\ [][Next]_vars

(***************************************************************************)
(* Properties of the update-menu command.                                  *)
(***************************************************************************)
UmPcs == {"um_check_device", "um_check_sd", "um_list_versions", "um_select",
          "um_confirm", "um_backup", "um_upload"}

\* the steps of an update-menu run, in order: the two probes, SELECTING_VERSION
\* answered, CONFIRMING answered, BACKING_UP, UPLOADING
UmSteps == <<"list", "sd_ls", "select", "confirm", "download", "upload">>

MenuUploads   == {i \in DOMAIN log : IsCall(log[i], "upload", SD_MENU_PATH)}
MenuDownloads == {i \in DOMAIN log : IsCall(log[i], "download", SD_MENU_PATH)}

\* C1: in update-menu, once the backup download has returned a non-zero exit
\* code no upload to the remote menu path is issued in that run, and the
\* command has ended reporting the failed backup.
C1_BackupFailureBlocksUpload ==
    loc.cmd = "menu" =>
        \A i \in MenuDownloads : log[i].code # 0 =>
            /\ MenuUploads = {}
            /\ pc \notin UmPcs
            /\ outcome = "backup_failed"

\* an update-menu run whose backup failed has returned
C1_Witness ==
    /\ loc.cmd = "menu"
    /\ \E i \in MenuDownloads : log[i].code # 0
    /\ outcome = "backup_failed"
    /\ pc = "mm_continue"

\* the update-menu state machine with IsYes deciding which confirmation
\* answers count as the yes
UmStateMachine(IsYes(_)) ==
    loc.cmd = "menu" =>
        \* forward only, every step at most once and in order
        /\ Len(log) <= Len(UmSteps)
        /\ \A i \in DOMAIN log : log[i].op = UmSteps[i]
        /\ pc = "um_select"  => Len(log) = 2
        /\ pc = "um_confirm" => Len(log) = 3
        /\ pc = "um_backup"  => Len(log) = 4
        /\ pc = "um_upload"  => Len(log) = 5
        /\ Len(log) = 6 => pc \notin UmPcs /\ outcome \in {"menu_updated", "upload_failed"}
        \* an upload comes after a selection, a yes and a successful backup
        /\ \A j \in MenuUploads :
              /\ log[3].ev = "answer" /\ loc.selected_menu \in 1..Len(loc.menu_versions)
              /\ IsYes(log[4].target)
              /\ log[5].code = 0
        \* any other answer ends the command before the download
        /\ \A i \in DOMAIN log : (log[i].op = "confirm" /\ ~IsYes(log[i].target)) =>
              /\ MenuDownloads = {} /\ MenuUploads = {}
              /\ pc \notin UmPcs /\ outcome = "cancelled"
        \* a cancel issues no download and no upload
        /\ outcome = "cancelled" => MenuDownloads = {} /\ MenuUploads = {}

IsYesExact(text)      == text = Str_y
IsYesNormalised(text) == Lower(Strip(text)) = Str_y

\* C2 (as amended): update-menu only moves forward through selection,
\* confirmation, backup, upload; every upload to the remote menu path comes
\* after a selection, a confirmation whose answer is y once trimmed and
\* lowercased, and a backup download that returned 0; a cancel or any other
\* confirmation answer ends the command with no download and no upload.
C2_UpdateMenuForwardOnly == UmStateMachine(IsYesNormalised)

\* C2 as stated: the confirmation must be answered exactly y
C2_AsStated == UmStateMachine(IsYesExact)

\* the menu was uploaded after a confirmation typed in upper case
C2_Witness ==
    /\ loc.cmd = "menu"
    /\ MenuUploads # {}
    /\ log[4].target # Str_y
    /\ outcome = "menu_updated"

\* the command was cancelled at the confirmation
C2_WitnessCancel ==
    /\ loc.cmd = "menu"
    /\ Len(log) = 4
    /\ outcome = "cancelled"

(***************************************************************************)
(* Properties of the prompts.                                              *)
(***************************************************************************)
\* the input holds an integer within 1..max
PicksOne(text, max) == ParseInt(text).ok /\ ParseInt(text).val \in 1..max

\* some comma-separated part of the input is an integer within 1..max
PicksSome(text, max) ==
    \E part \in Range(SplitChar(text, ",")) : PicksOne(part, max)

\* the last input was a typed line that holds no valid selection, no
\* navigation key and no cancel token of the prompt it was given at
InvalidAsked ==
    /\ asked.inp.kind = "line"
    /\ LET text == Lower(Strip(asked.inp.text)) IN
       CASE asked.prompt \in {"mm_prompt", "up_dest", "mu_prompt"} ->
                text # Str_0 /\ ~PicksOne(text, asked.max)
         [] asked.prompt \in {"up_select", "qk_select"} ->
                text \notin {Str_0, Str_all} /\ ~PicksSome(text, asked.max)
         [] asked.prompt = "um_select" ->
                text \notin {Str_0, Str_p, Str_n} /\ ~PicksOne(text, asked.max)
         [] asked.prompt = "br_prompt" ->
                text \notin {Str_0, Str_b} /\ ~PicksOne(text, asked.max)
         [] OTHER -> FALSE

\* where the program is while a prompt is being shown again
Reprompting(prompt) == IF prompt = "br_prompt" THEN {"br_prompt", "br_list"} ELSE {prompt}

\* C9: an input without a valid selection that is not the cancel token never
\* makes a selection prompt return, cancel or end the surrounding operation:
\* the same prompt is shown again.
C9_InvalidInputReprompts ==
    InvalidAsked => pc \in Reprompting(asked.prompt)

\* every listed ROM number was out of range: the upload was cancelled
C9_WitnessCancelled ==
    /\ asked.prompt = "up_select"
    /\ InvalidAsked
    /\ LET ints == PartInts(Lower(Strip(asked.inp.text))) IN
       \A k \in DOMAIN ints : ints[k].ok
    /\ outcome = "cancelled"
    /\ pc \in {"exit", "mm_continue"}

\* C10: an interrupt at an input prompt makes the interactive operation
\* return to its caller; it never leaves the command as an uncaught error.
C10_InterruptReturnsToCaller ==
    asked.inp.kind = "interrupt" => pc \in {"exit", "mm_continue"}

\* the interrupt at the confirmation of update-menu left the command uncaught
C10_WitnessConfirm ==
    /\ asked.prompt = "um_confirm"
    /\ asked.inp.kind = "interrupt"
    /\ pc = "KeyboardInterrupt"
    /\ MenuDownloads = {} /\ MenuUploads = {}

(***************************************************************************)
(* run_sc64_command                                                        *)
(***************************************************************************)
\* what subprocess.run comes to: the deployer ran to its end, or the launch
\* raised: FileNotFoundError when there is no such executable,
\* PermissionError when the file may not be executed, another OSError when
\* the system cannot execute it
Launches == {"completed", "FileNotFoundError", "PermissionError", "OSError"}

ReturnCodes == {0, 1, 2, 255}

RunStdouts ==
    { <<>>, <<"F", "o", "u", "n", "d">>, <<"a", " ", "|", " ", "b">>, <<"\n">> }

RunStderrs ==
    { <<>>, <<"e", "r", "r">>, <<"E", "\n">> }

\* the message of line 39
Str_not_found == <<"E", "r", "r", "o", "r", ":", " ", "s", "c", "6", "4", "d", "e", "p",
                   "l", "o", "y", "e", "r", " ", "n", "o", "t", " ", "f", "o", "u", "n", "d">>

\* run_sc64_command: raised is the exception that leaves the function, none
\* when it returns (code, stdout, stderr)
run_sc64_command(launch, returncode, stdout, stderr) ==
    IF launch = "completed"
    THEN [raised |-> None, code |-> returncode, stdout |-> stdout, stderr |-> stderr]
    ELSE IF launch = "FileNotFoundError"
    THEN [raised |-> None, code |-> -1, stdout |-> <<>>, stderr |-> Str_not_found]
    ELSE [raised |-> launch, code |-> 0, stdout |-> <<>>, stderr |-> <<>>]

InitRun ==
    /\ pc = "run_call"
    /\ arg \in [launch : Launches, returncode : ReturnCodes,
                stdout : RunStdouts, stderr : RunStderrs]
    /\ res = None
    /\ ProgIdle

RunSc64Command ==
    /\ pc = "run_call"
    /\ res' = run_sc64_command(arg.launch, arg.returncode, arg.stdout, arg.stderr)
    /\ pc' = "run_ret"
    /\ UNCHANGED arg
    /\ UNCHANGED progVars

NextRun == RunSc64Command

SpecRun == InitRun /\ [][NextRun]_vars

\* C11: run_sc64_command returns a triple for every outcome of invoking the
\* deployer: the deployer's own exit code and output when it ran, and -1,
\* empty stdout and a message when the executable cannot be located or cannot
\* be started; it never raises.
C11_RunAlwaysReturns ==
    pc = "run_ret" =>
        /\ res.raised = None
        /\ arg.launch = "completed" =>
              /\ res.code = arg.returncode
              /\ res.stdout = arg.stdout
              /\ res.stderr = arg.stderr
        /\ arg.launch # "completed" =>
              /\ res.code = -1
              /\ res.stdout = <<>>
              /\ res.stderr # <<>>

\* the executable is there but may not be executed: the exception left
\* run_sc64_command
C11_WitnessNotStarted ==
    /\ pc = "run_ret"
    /\ arg.launch = "PermissionError"
    /\ res.raised = "PermissionError"

(***************************************************************************)
(* Properties of the commands facing the device.                           *)
(***************************************************************************)
DeviceFacing == {"status", "cart", "compare", "upload", "quick", "menu", "music",
                 "browse", "rtc"}

\* where the program is once a command has returned to main or to main_menu
\* (an interrupt at main_menu's "Press Enter" included)
Returned == {"exit", "mm_continue", "mm_status", "KeyboardInterrupt"}

\* the prompts of main_menu itself
MenuPrompts == {"none", "mm_prompt", "mm_continue"}

\* C12: when the deployer is unreachable, so that the first call of a
\* device-facing command (its connectivity or accessibility probe) returns a
\* non-zero code (-1 for a missing executable), the command issues no further
\* deployer call, shows no prompt of its own, repeats nothing and returns.
C12_UnreachableShortCircuits ==
    (loc.cmd \in DeviceFacing /\ log # <<>> /\ log[1].code # 0) =>
        /\ Len(log) = 1
        /\ log[1].op \in {"list", "sd_ls"}
        /\ pc \in Returned
        /\ asked.prompt \in MenuPrompts

\* the rtc command started from the main menu found the executable missing
\* and is back at the menu
C12_Witness ==
    /\ loc.cmd = "rtc"
    /\ mode = "menu"
    /\ log = <<Call("list", <<>>, -1)>>
    /\ outcome = "not_connected"
    /\ pc = "mm_continue"

\* the compare command, whose probe is the SD card's, stopped at it
C12_WitnessCompare ==
    /\ loc.cmd = "compare"
    /\ log = <<Call("sd_ls", <<>>, 1)>>
    /\ outcome = "compared_without_cart"
    /\ pc = "exit"

(***************************************************************************)
(* Properties of the batch uploads.                                        *)
(***************************************************************************)
\* the run is a batch upload whose selection has been made
InBatch == loc.cmd \in {"upload", "quick"} /\ "choices" \in DOMAIN loc /\ loc.choices # <<>>

\* the list the selection numbers and the directory the ROMs go to
BatchRoms == IF loc.cmd = "upload" THEN loc.missing ELSE loc.local_roms
BatchDest == IF loc.cmd = "upload" THEN loc.dest_path ELSE <<"/">>

IsUploadCall(e) == e.ev = "call" /\ e.op = "upload"

\* the upload calls of the run, in the order issued
UploadCalls == SelectSeq(log, IsUploadCall)

\* the command is between the selection and its first upload
BeforeBatch == pc \in {"up_dest", "up_path"}

\* C13: in upload and quick-upload each selected ROM gets exactly one upload
\* attempt, in ascending selection order, whatever the earlier attempts
\* returned, and no other ROM is uploaded: a failure never ends the batch.
C13_BatchUploadsEverySelection ==
    InBatch =>
        /\ \A k \in DOMAIN loc.choices :
              /\ loc.choices[k] \in 1..Len(BatchRoms)
              /\ k > 1 => loc.choices[k - 1] < loc.choices[k]
        /\ Len(UploadCalls) = loc.done
        /\ loc.done <= Len(loc.choices)
        /\ \A k \in 1..loc.done :
              UploadCalls[k].target =
                  RStripChar(BatchDest, "/") \o <<"/">> \o BatchRoms[loc.choices[k]].name
        /\ pc \in {"up_upload", "qk_upload"} => loc.done < Len(loc.choices)
        /\ (pc \in Returned /\ loc.done > 0) => loc.done = Len(loc.choices)
        /\ BeforeBatch => loc.done = 0

\* a quick upload of two ROMs whose first upload failed attempted the second
C13_Witness ==
    /\ InBatch
    /\ loc.cmd = "quick"
    /\ Len(loc.choices) = 2
    /\ Len(UploadCalls) = 2
    /\ UploadCalls[1].code # 0
    /\ pc \in Returned

\* the same for the upload command, into a custom directory
C13_WitnessUpload ==
    /\ InBatch
    /\ loc.cmd = "upload"
    /\ loc.dest_path # <<"/">>
    /\ Len(loc.choices) = 2
    /\ Len(UploadCalls) = 2
    /\ UploadCalls[1].code # 0
    /\ pc \in Returned

\* C14: every batch upload, of the upload and of the quick-upload command,
\* ends by reporting "successes of total": the successes are the upload calls
\* that returned 0, the total is the number of selected ROMs.
C14_BatchEndsWithSummary ==
    (InBatch /\ pc \in Returned /\ loc.done = Len(loc.choices)) =>
        loc.summary = << Cardinality({k \in DOMAIN UploadCalls : UploadCalls[k].code = 0}),
                         Len(loc.choices) >>

\* a quick upload ended, one of its two uploads failed, nothing was summed up
C14_WitnessQuick ==
    /\ InBatch
    /\ loc.cmd = "quick"
    /\ pc \in Returned
    /\ Len(UploadCalls) = 2
    /\ UploadCalls[2].code # 0
    /\ loc.summary = <<>>

\* the upload command reported 1 of 2
C14_WitnessUpload ==
    /\ InBatch
    /\ loc.cmd = "upload"
    /\ pc \in Returned
    /\ loc.summary = <<1, 2>>

(***************************************************************************)
(* get_all_sd_roms                                                         *)
(***************************************************************************)
Str_a    == <<"a">>
Str_rz64 == <<"r", ".", "z", "6", "4">>
Str_NV64 == <<"N", ".", "V", "6", "4">>
Str_ttxt == <<"t", ".", "t", "x", "t">>

SdDirNames  == {Str_a, Str_b}
SdFileNames == {Str_rz64, Str_NV64, Str_ttxt}

\* the directories a node of the card can lie in: the root <<>> and the
\* chains of directory names below it
RECURSIVE SdDirPaths(_)
SdDirPaths(n) ==
    IF n = 0 THEN {<<>>}
    ELSE LET shorter == SdDirPaths(n - 1) IN
         shorter \cup {Append(p, d) : p \in shorter, d \in SdDirNames}

\* a node of the card: the names from the root down to it, and what it is
SdNodes ==
    {[path |-> Append(p, d), type |-> "dir"] : p \in SdDirPaths(MaxNodes - 1), d \in SdDirNames}
    \cup
    {[path |-> Append(p, f), type |-> "file"] : p \in SdDirPaths(MaxNodes - 1), f \in SdFileNames}

Parent(n) == SubSeq(n.path, 1, Len(n.path) - 1)

\* n can be added to the tree t: its directory is the root or a directory of t
Fits(n, t) ==
    /\ n \notin t
    /\ \/ Parent(n) = <<>>
       \/ [path |-> Parent(n), type |-> "dir"] \in t

\* the trees of exactly k nodes
RECURSIVE SdTreesOf(_)
SdTreesOf(k) ==
    IF k = 0 THEN {{}}
    ELSE UNION { {t \cup {n} : n \in {x \in SdNodes : Fits(x, t)}} : t \in SdTreesOf(k - 1) }

\* every tree-structured card of at most MaxNodes nodes
SdTrees == UNION {SdTreesOf(k) : k \in 0..MaxNodes}

\* the path of a node as the deployer takes it: "/a/b"
RECURSIVE PathStr(_)
PathStr(p) == IF p = <<>> THEN <<>> ELSE PathStr(SubSeq(p, 1, Len(p) - 1)) \o <<"/">> \o p[Len(p)]

RECURSIVE SetToSeq(_)
SetToSeq(S) ==
    IF S = {} THEN <<>>
    ELSE LET x == CHOOSE y \in S : TRUE IN <<x>> \o SetToSeq(S \ {x})

\* the line sd ls prints for a node: the entry's name within the listed
\* directory, a directory's with a leading "/" when the deployer marks them so
SdLine(n, slash) ==
    (IF n.type = "dir" THEN <<"d", " ", "-", "-", "-", "-", " ", "|", " ">>
                       ELSE <<"f", " ", "1", "M", " ", "|", " ">>)
    \o (IF n.type = "dir" /\ slash THEN <<"/">> ELSE <<>>)
    \o n.path[Len(n.path)] \o <<"\n">>

\* sd ls of the directory the deployer finds at the path string (<<>>: no
\* argument, the root): exit code and stdout
DeviceLs(tree, slash, path) ==
    LET here == {p \in {<<>>} \cup {n.path : n \in {x \in tree : x.type = "dir"}} :
                    PathStr(p) = path}
    IN  IF here = {} THEN [code |-> 1, stdout |-> <<>>]
        ELSE LET p == CHOOSE q \in here : TRUE
                 entries == SetToSeq({n \in tree : Parent(n) = p})
             IN  [code |-> 0,
                  stdout |-> Concat([k \in DOMAIN entries |-> SdLine(entries[k], slash)])]

\* the argument list_sd_card_files hands to sd ls for a path
LsArg(path) == IF path = None \/ path = <<"/">> THEN <<>> ELSE path

IsRomEntry(f) == \E ext \in ROM_EXTENSIONS : EndsWith(Lower(f.name), ext)

InitWalk ==
    /\ pc = "walk_call"
    /\ arg \in [tree : SdTrees, slash : BOOLEAN]
    /\ res = None
    /\ ProgIdle

\* get_all_sd_roms(): found = [] and the listing of the root.  todo holds the
\* entries the loops of the active calls still have to visit, innermost first
WalkCall ==
    /\ pc = "walk_call"
    /\ LET ls == DeviceLs(arg.tree, arg.slash, <<>>) IN
       res' = [todo   |-> list_sd_card_files(ls.code, ls.stdout),
               found  |-> <<>>,
               listed |-> << <<"/">> >>]
    /\ pc' = "walk_loop"
    /\ UNCHANGED arg
    /\ UNCHANGED progVars

\* one pass of `for f in files`: a directory is walked by
\* get_all_sd_roms(f["path"], found), a file with a ROM extension is collected
WalkEntry ==
    /\ pc = "walk_loop"
    /\ res.todo # <<>>
    /\ Len(res.listed) < MaxListings
    /\ LET f == Head(res.todo) IN
       IF f.type = "dir"
       THEN LET ls == DeviceLs(arg.tree, arg.slash, LsArg(f.path)) IN
            res' = [res EXCEPT !.todo = list_sd_card_files(ls.code, ls.stdout) \o Tail(@),
                               !.listed = Append(@, f.path)]
       ELSE res' = [res EXCEPT !.todo = Tail(@),
                               !.found = IF IsRomEntry(f) THEN Append(@, f) ELSE @]
    /\ UNCHANGED pc
    /\ UNCHANGED arg
    /\ UNCHANGED progVars

\* every loop has ended: found is returned
WalkReturn ==
    /\ pc = "walk_loop"
    /\ res.todo = <<>>
    /\ pc' = "walk_ret"
    /\ UNCHANGED fnVars
    /\ UNCHANGED progVars

NextWalk == WalkCall \/ WalkEntry \/ WalkReturn

SpecWalk == InitWalk /\ [][NextWalk]_vars

\* the ROM files and the directories of the card
TreeRoms == {n \in arg.tree : n.type = "file" /\ NameHasRomExt(n.path[Len(n.path)])}
TreeDirs == {n \in arg.tree : n.type = "dir"}

\* C15: the enumeration started at the root returns exactly the files with a
\* ROM extension found anywhere in the tree, each exactly once, and lists,
\* besides the root, exactly the directories of the tree, each at its own
\* location.
C15_WalkFindsEveryRom ==
    pc = "walk_ret" =>
        /\ \A name \in SdFileNames :
              Cardinality({i \in DOMAIN res.found : res.found[i].name = name})
                  = Cardinality({n \in TreeRoms : n.path[Len(n.path)] = name})
        /\ Len(res.found) = Cardinality(TreeRoms)
        /\ Range(res.listed) = {<<"/">>} \cup {PathStr(n.path) : n \in TreeDirs}

\* a ROM two directories down was not found: the walk asked for /b, not /a/b
C15_WitnessMissed ==
    /\ pc = "walk_ret"
    /\ arg.tree = { [path |-> <<Str_a>>, type |-> "dir"],
                    [path |-> <<Str_a, Str_b>>, type |-> "dir"],
                    [path |-> <<Str_a, Str_b, Str_rz64>>, type |-> "file"] }
    /\ res.found = <<>>
    /\ Range(res.listed) = {<<"/">>, <<"/", "a">>, <<"/", "b">>}

\* C16: on every finite tree the walk lists no path twice and ends: it lists
\* the root and each directory at most once.
C16_WalkListsNoPathTwice ==
    pc \in {"walk_loop", "walk_ret"} =>
        /\ \A i, j \in DOMAIN res.listed : i # j => res.listed[i] # res.listed[j]
        /\ Len(res.listed) <= 1 + Cardinality(TreeDirs)

\* directory a holding a directory a: /a is listed again and again
C16_WitnessLoop ==
    /\ pc = "walk_loop"
    /\ arg.tree = { [path |-> <<Str_a>>, type |-> "dir"],
                    [path |-> <<Str_a, Str_a>>, type |-> "dir"] }
    /\ Len(res.listed) = MaxListings
    /\ \A i \in 2..Len(res.listed) : res.listed[i] = <<"/", "a">>
    /\ res.todo # <<>>

(***************************************************************************)
(* Properties of the SD browser.                                           *)
(***************************************************************************)
\* what was typed at the browser's prompt in the step being taken
BrTyped == Lower(Strip(asked'.inp.text))

\* the step answers the browser's prompt with the parent key, out of the root
BrGoesUp ==
    /\ pc = "br_prompt"
    /\ asked'.inp.kind = "line"
    /\ BrTyped = Str_0
    /\ loc.current_path # <<"/">>

\* the step answers the browser's prompt with the number of a listed directory
BrEnters ==
    /\ pc = "br_prompt"
    /\ asked'.inp.kind = "line"
    /\ BrTyped # Str_b
    /\ ~BrGoesUp
    /\ ParseInt(BrTyped).ok
    /\ loc.item_map.bound
    /\ ParseInt(BrTyped).val \in DOMAIN loc.item_map.items
    /\ loc.item_map.items[ParseInt(BrTyped).val].type = "dir"

\* what a step of the browser does to (current path, history)
BrStackStep ==
    /\ BrEnters =>
          LET item == loc.item_map.items[ParseInt(BrTyped).val] IN
          /\ loc'.history = Append(loc.history, loc.current_path)
          /\ StartsWith(loc'.current_path, RStripChar(loc.current_path, "/") \o <<"/">>)
          /\ EndsWith(loc'.current_path, item.name)
          \* so that the parent key is taken as such right after
          /\ loc'.current_path # <<"/">>
          /\ pc' = "br_list"
    /\ (BrGoesUp /\ loc.history # <<>>) =>
          /\ loc'.current_path = loc.history[Len(loc.history)]
          /\ loc'.history = SubSeq(loc.history, 1, Len(loc.history) - 1)
          /\ pc' = "br_list"

MusicListed == loc.cmd = "music" /\ "options_map" \in DOMAIN loc

\* the local .mp3 files: the regular files of menu_music/ named *.mp3, in any case
LocalMp3s ==
    {e \in Range(loc.walk) : e.isfile /\ Len(e.name) > Len(Str_mp3)
                                      /\ EndsWith(Lower(e.name), Str_mp3)}

\* the stat of the remote music path succeeded
StatSucceeded ==
    \E i \in DOMAIN log : IsCall(log[i], "stat", SD_MENU_MUSIC_PATH) /\ log[i].code = 0

MusicCalls == {i \in DOMAIN log : log[i].ev = "call" /\ log[i].op \in {"upload", "rm"}}

\* C18: the music command offers exactly one set option per local .mp3 file,
\* numbered from 1 in case-insensitive name order, followed by a remove
\* option if and only if the stat of the remote music path succeeded; with no
\* local file and no remote music it returns without a prompt and without an
\* upload or delete call.
C18_MusicOptionsFromState ==
    MusicListed =>
        LET n    == Cardinality(LocalMp3s)
            opts == loc.options_map
        IN  /\ Len(opts) = n + (IF StatSucceeded THEN 1 ELSE 0)
            /\ \A k \in 1..n : opts[k].action = "set" /\ opts[k].mp3 \in LocalMp3s
            /\ \A j, k \in 1..n :
                  j < k => /\ opts[j].mp3 # opts[k].mp3
                           /\ StrLeq(Lower(opts[j].mp3.name), Lower(opts[k].mp3.name))
            /\ StatSucceeded => opts[n + 1].action = "remove"
            /\ \A k \in DOMAIN opts : opts[k].action = "remove" => StatSucceeded /\ k = n + 1
            /\ (n = 0 /\ ~StatSucceeded) =>
                  /\ pc \in Returned
                  /\ outcome = "no_actions"
                  /\ asked.prompt \in MenuPrompts
                  /\ MusicCalls = {}
            /\ pc = "mu_remove" => StatSucceeded
            /\ pc = "mu_upload" => loc.choice \in 1..n

\* two local files listed out of name order and remote music present: three
\* options, the prompt is up
C18_Witness ==
    /\ MusicListed
    /\ pc = "mu_prompt"
    /\ Len(loc.walk) = 2
    /\ Cardinality(LocalMp3s) = 2
    /\ loc.walk[1].name = <<"b", ".", "m", "p", "3">>
    /\ StatSucceeded
    /\ Len(loc.options_map) = 3

\* nothing local, nothing remote: the command returned without asking
C18_WitnessNoActions ==
    /\ MusicListed
    /\ LocalMp3s = {}
    /\ ~StatSucceeded
    /\ outcome = "no_actions"
    /\ pc \in Returned

(***************************************************************************)
(* Properties of the paginated selector.                                   *)
(***************************************************************************)
\* the menu versions of the running update-menu command have been listed
Paging == loc.cmd = "menu" /\ "menu_versions" \in DOMAIN loc

\* the number of items the page shows
OnPage(l) ==
    LET left == Len(l.menu_versions) - l.current_page * 9 IN
    IF left > 9 THEN 9 ELSE left

\* the number typed to make the selection
SelectedNumber == ParseInt(Lower(Strip(log[3].target))).val

PageInv ==
    Paging =>
        /\ loc.total_pages * 9 >= Len(loc.menu_versions)
        /\ (loc.total_pages - 1) * 9 < Len(loc.menu_versions)
        /\ loc.current_page \in 0..(loc.total_pages - 1)
        /\ OnPage(loc) \in 1..9
        /\ pc = "um_select" => /\ Len(PageItems(loc)) = OnPage(loc)
                               /\ loc.selected_menu = 0
        /\ pc \in {"um_confirm", "um_backup", "um_upload"} =>
              /\ SelectedNumber \in 1..OnPage(loc)
              /\ loc.selected_menu =
                    loc.menu_versions[loc.current_page * 9 + SelectedNumber]

\* what one answer at the selector does
PageStep ==
    (pc = "um_select") =>
        LET typed == Lower(Strip(asked'.inp.text))
            line  == asked'.inp.kind = "line"
        IN  /\ loc'.current_page =
                  IF line /\ typed = Str_n /\ loc.current_page + 1 < loc.total_pages
                  THEN loc.current_page + 1
                  ELSE IF line /\ typed = Str_p /\ loc.current_page > 0
                  THEN loc.current_page - 1
                  ELSE loc.current_page
            /\ loc'.current_page # loc.current_page => pc' = "um_select"
            /\ pc' # "um_select" =>
                  \/ /\ pc' = "um_confirm"
                     /\ line /\ PicksOne(typed, OnPage(loc))
                     /\ loc'.selected_menu # 0
                  \/ /\ pc' \in Returned
                     /\ outcome' = "cancelled"
                     /\ ~line \/ typed = Str_0

\* C19: the selector shows at most 9 items a page and never an empty page; n
\* and p move by one page only when there is a next or previous page, so the
\* page index stays within 0..total_pages-1; a number k of the page selects
\* the item at index page*9 + k - 1 of the list; the loop ends only with such
\* a selection or with a cancel (0 or an interrupt).
C19_PaginatedSelector == []PageInv /\ [][PageStep]_vars

\* the only item of the third page was selected
C19_Witness ==
    /\ Paging
    /\ pc = "um_confirm"
    /\ loc.current_page = 2
    /\ Len(loc.menu_versions) = 19
    /\ loc.selected_menu = loc.menu_versions[19]

\* back on the first page after going forward, n refused on the last page
C19_WitnessRefused ==
    /\ Paging
    /\ pc = "um_select"
    /\ loc.current_page = loc.total_pages - 1
    /\ loc.total_pages = 2
    /\ asked.prompt = "um_select"
    /\ asked.inp.kind = "line"
    /\ Lower(Strip(asked.inp.text)) = Str_n
    /\ asked.max < 9

(***************************************************************************)
(* main as a function of the argument vector.                              *)
(***************************************************************************)
\* what main does with sys.argv: the command function it calls, what it
\* prints itself, and where execution goes on
main(argv) ==
    IF Len(argv) > 1
    THEN LET cmd == Dispatch(argv[2]) IN
         [calls  |-> IF cmd \in Modelled THEN cmd ELSE None,
          prints |-> IF cmd \in Modelled THEN None ELSE cmd,
          goes   |-> Entry(cmd)]
    ELSE [calls |-> "main_menu", prints |-> None, goes |-> "mm_status"]

\* the words main's comparisons name, with the command each belongs to
Aliases ==
    { << <<"s","t","a","t","u","s">>, "status" >>,  << <<"s">>, "status" >>,
      << <<"l","o","c","a","l">>, "local" >>,       << <<"l">>, "local" >>,
      << <<"c","a","r","t">>, "cart" >>,            << <<"c">>, "cart" >>,
      << <<"c","o","m","p","a","r","e">>, "compare" >>,
      << <<"d","i","f","f">>, "compare" >>,         << <<"d">>, "compare" >>,
      << <<"u","p","l","o","a","d">>, "upload" >>,  << <<"u">>, "upload" >>,
      << <<"q","u","i","c","k">>, "quick" >>,       << <<"q">>, "quick" >>,
      << <<"m","e","n","u">>, "menu" >>,            << <<"m">>, "menu" >>,
      << <<"m","u","s","i","c">>, "music" >>,       << <<"b","g","m">>, "music" >>,
      << <<"b","r","o","w","s","e">>, "browse" >>,  << <<"s","d">>, "browse" >>,
      << <<"r","t","c">>, "rtc" >>,                 << <<"c","l","o","c","k">>, "rtc" >>,
      << <<"t","i","m","e">>, "rtc" >>,
      << <<"h","e","l","p">>, "help" >>,            << <<"h">>, "help" >>,
      << <<"-","h">>, "help" >>,                    << <<"-","-","h","e","l","p">>, "help" >> }

UpperChar(c) ==
    IF \E i \in DOMAIN LowerAlpha : LowerAlpha[i] = c
    THEN UpperAlpha[CHOOSE i \in DOMAIN LowerAlpha : LowerAlpha[i] = c]
    ELSE c

Upper(s) == [i \in 1..Len(s) |-> UpperChar(s[i])]

Capitalized(s) == [i \in 1..Len(s) |-> IF i = 1 THEN UpperChar(s[i]) ELSE s[i]]

EndsUpper(s) == [i \in 1..Len(s) |-> IF i = Len(s) THEN UpperChar(s[i]) ELSE s[i]]

\* arguments that are no command: the empty string, near misses, padded words
Strangers ==
    { <<>>, <<"b","o","g","u","s">>, <<"s","t","a","t","u">>, <<"s","s">>,
      <<" ","s">>, <<"s"," ">>, <<"h","e","l","p","!">>, <<"-","-","h">>,
      <<"-","s">>, <<"1">>, <<"u","p","l","o","a","d","s">>, <<"/","?">> }

ArgTokens ==
    LET words == { a[1] : a \in Aliases } IN
    words \cup { Upper(w) : w \in words } \cup { Capitalized(w) : w \in words }
          \cup { EndsUpper(w) : w \in words } \cup Strangers

Str_prog == <<"s","b">>

\* sys.argv: the script alone, with one argument, or with a second argument
\* that main never looks at
ArgVectors ==
    { <<Str_prog>> } \cup { <<Str_prog, t>> : t \in ArgTokens }
                     \cup { <<Str_prog, t, <<"h","e","l","p">> >> : t \in Strangers \cup {<<"q">>} }

InitDispatch ==
    /\ pc = "main_call"
    /\ arg \in ArgVectors
    /\ res = None
    /\ ProgIdle

MainCall ==
    /\ pc = "main_call"
    /\ res' = main(arg)
    /\ pc' = "main_ret"
    /\ UNCHANGED arg
    /\ UNCHANGED progVars

NextDispatch == MainCall

SpecDispatch == InitDispatch /\ [][NextDispatch]_vars

\* the same text when the case of the letters is disregarded
SameIgnoringCase(s, t) ==
    /\ Len(s) = Len(t)
    /\ \A i \in 1..Len(s) : s[i] = t[i] \/ UpperChar(s[i]) = t[i] \/ s[i] = UpperChar(t[i])

\* the commands whose words the argument matches
Matched(token) == { a[2] : a \in { b \in Aliases : SameIgnoringCase(token, b[1]) } }

\* C20: main maps the first argument, compared without regard to case, to
\* exactly one action: a command word runs its own command and no other, a
\* help word prints the usage and calls nothing, any other argument prints
\* the unknown-command error and runs nothing, and without an argument the
\* interactive main menu is entered.
C20_DispatchTable ==
    pc = "main_ret" =>
        IF Len(arg) = 1
        THEN res = [calls |-> "main_menu", prints |-> None, goes |-> "mm_status"]
        ELSE LET matched == Matched(arg[2]) IN
             /\ Cardinality(matched) <= 1
             /\ \A c \in matched \ {"help"} :
                   /\ res.calls = c
                   /\ res.prints = None
                   /\ res.goes = Entry(c)
                   /\ res.goes # "exit"
             /\ "help" \in matched =>
                   res = [calls |-> None, prints |-> "help", goes |-> "exit"]
             /\ matched = {} =>
                   res = [calls |-> None, prints |-> "unknown", goes |-> "exit"]

\* an alias typed in upper case runs its command
C20_Witness ==
    /\ pc = "main_ret"
    /\ Len(arg) = 2
    /\ arg[2] = <<"C","L","O","C","K">>
    /\ res.calls = "rtc"

\* the help word in upper case
C20_WitnessHelp ==
    /\ pc = "main_ret"
    /\ Len(arg) = 2
    /\ arg[2] = <<"-","-","H","E","L","P">>
    /\ res.prints = "help"

(***************************************************************************)
(* Malformed listing lines.                                                *)
(***************************************************************************)
\* the positions of the line feeds of s
LineFeeds(s) == {i \in DOMAIN s : s[i] = "\n"}

\* the number of lines of s
NumLines(s) == Cardinality(LineFeeds(s)) + 1

\* the k-th line of s, counted from 1
NthLine(s, k) ==
    LET nl == LineFeeds(s)
        lo == IF k = 1 THEN 0
              ELSE CHOOSE i \in nl : Cardinality({j \in nl : j < i}) = k - 2
        hi == IF k = NumLines(s) THEN Len(s) + 1
              ELSE CHOOSE i \in nl : Cardinality({j \in nl : j < i}) = k - 1
    IN  SubSeq(s, lo + 1, hi - 1)

IsBlank(line) == \A i \in DOMAIN line : IsSpace(line[i])

HasPipe(line) == \E i \in DOMAIN line : line[i] = "|"

\* the numbers of the lines that are not blank and contain a pipe
RecordLines(s) == {k \in 1..NumLines(s) : ~IsBlank(NthLine(s, k)) /\ HasPipe(NthLine(s, k))}

\* C21: list_sd_card_files returns one record for every non-blank line with a
\* pipe, in the order of the lines, and nothing else: a line without a pipe
\* gives no record, a line with several pipes is cut at the first one and
\* keeps the rest in its name, and a non-zero exit code gives the empty list
\* whatever the output.
C21_MalformedLinesSkipped ==
    pc = "list_sd_ret" =>
        IF arg.code # 0 THEN res = <<>>
        ELSE LET kept == RecordLines(arg.stdout) IN
             /\ Len(res) = Cardinality(kept)
             /\ \A k \in kept :
                   LET line == NthLine(arg.stdout, k)
                       p    == CHOOSE i \in DOMAIN line :
                                  line[i] = "|" /\ \A m \in 1..(i - 1) : line[m] # "|"
                       r    == res[Cardinality({j \in kept : j <= k})]
                   IN  /\ r.name = Strip(SubSeq(line, p + 1, Len(line)))
                       /\ r = ExpectedRecord(line)

\* a line without a pipe was dropped and the next line, with two pipes, kept
\* its second pipe in the name
C21_Witness ==
    /\ pc = "list_sd_ret"
    /\ arg.code = 0
    /\ NumLines(arg.stdout) = 2
    /\ ~IsBlank(NthLine(arg.stdout, 1)) /\ ~HasPipe(NthLine(arg.stdout, 1))
    /\ Len(res) = 1
    /\ HasPipe(res[1].name)

\* the deployer failed after printing a well-formed line
C21_WitnessFailed ==
    /\ pc = "list_sd_ret"
    /\ arg.code # 0
    /\ RecordLines(arg.stdout) # {}
    /\ res = <<>>

\* a dropped line stands between two lines that gave records
C21_WitnessBetween ==
    /\ pc = "list_sd_ret"
    /\ arg.code = 0
    /\ RecordLines(arg.stdout) = {1, 3}
    /\ ~IsBlank(NthLine(arg.stdout, 2))
    /\ Len(res) = 2

(***************************************************************************)
(* A failed upload after a saved backup.                                   *)
(***************************************************************************)
\* the update-menu run saved its backup and the upload after it failed
UploadFailedAfterBackup ==
    /\ loc.cmd = "menu"
    /\ \E i \in MenuDownloads : log[i].code = 0
    /\ \E i \in MenuUploads : log[i].code # 0

\* C22: in update-menu, when the backup succeeded and the upload after it
\* returns a non-zero exit code, the command reports the failed upload and the
\* saved backup and returns: the failed upload is its last deployer call (no
\* second upload, no restore, no delete) and the backup file is still there.
C22_UploadFailureKeepsBackup ==
    UploadFailedAfterBackup =>
        /\ pc \in Returned
        /\ outcome = "upload_failed"
        /\ Cardinality(MenuUploads) = 1
        /\ Cardinality(MenuDownloads) = 1
        /\ log[Len(log)].ev = "call" /\ log[Len(log)].op = "upload"
        /\ log[Len(log)].code # 0
        /\ log[Len(log) - 1].op = "download"
        /\ \A i \in DOMAIN log : log[i].op # "rm"
        /\ loc.backup_saved

\* started from the main menu, the run is over and the menu is about to be
\* shown again
C22_Witness ==
    /\ UploadFailedAfterBackup
    /\ mode = "menu"
    /\ pc = "mm_status"
    /\ outcome = "upload_failed"
    /\ loc.backup_saved

(***************************************************************************)
(* Iteration order of the extension set.                                   *)
(***************************************************************************)
\* C23: the result of normalize_rom_name does not depend on the order in
\* which the extension set is iterated: at most one recognised extension
\* matches the suffix of a name, so a run under any other iteration order
\* returns the same key, also for a name ending in two different extensions.
C23_NormalizeOrderIndependent ==
    pc = "normalize_ret" =>
        /\ Cardinality({e \in ROM_EXTENSIONS : EndsWith(Lower(arg.name), e)}) <= 1
        /\ \A other \in ExtOrders : normalize_rom_name(arg.name, other) = res

\* a name ending in two different extensions, normalised under an order that
\* tries the inner extension first
C23_Witness ==
    /\ pc = "normalize_ret"
    /\ Len(arg.name) > 8
    /\ LET outer == {e \in ROM_EXTENSIONS : EndsWith(Lower(arg.name), e)}
           inner == {e \in ROM_EXTENSIONS :
                        EndsWith(Lower(SubSeq(arg.name, 1, Len(arg.name) - 4)), e)}
       IN  /\ outer # {} /\ inner # {} /\ outer # inner
           /\ arg.order[1] \in inner
           /\ res = Strip(Lower(SubSeq(arg.name, 1, Len(arg.name) - 4)))

(***************************************************************************)
(* The browser's history and the root.                                     *)
(***************************************************************************)
\* the browser's loop has been entered
Browsing == loc.cmd = "browse" /\ "history" \in DOMAIN loc

\* the step takes the else branch of lines 816-819: the parent is cut out of
\* the current path because the history is empty
BrFallsBack == BrGoesUp /\ loc.history = <<>>

BrHistoryInv ==
    Browsing =>
        /\ loc.history = <<>> => loc.current_path = <<"/">>
        /\ loc.history # <<>> => loc.history[1] = <<"/">>

\* C24: in every reachable state of the browser an empty history implies that
\* the current path is the root, so no step of the browser takes the
\* parent-by-truncation branch, whatever the inputs and the listings.
C24_EmptyHistoryMeansRoot == []BrHistoryInv /\ [][~BrFallsBack]_vars

\* a directory was entered and left: the history is empty again, at the root,
\* and the parent came from the history
C24_Witness ==
    /\ Browsing
    /\ pc = "br_list"
    /\ loc.renders = 2
    /\ asked.prompt = "br_prompt"
    /\ asked.inp = Line(Str_0)
    /\ log[Len(log)].op = "sd_ls"
    /\ log[Len(log)].target # <<>>
    /\ loc.history = <<>>
    /\ loc.current_path = <<"/">>

(***************************************************************************)
(* Inputs that leave the browser where it is.                              *)
(***************************************************************************)
\* the numbered entries of the listing the browser shows: directories first,
\* then files, each by lowercased name; none for an empty directory
Listed(l) ==
    SortedByName(SelectSeq(l.files, IsDirEntry)) \o SortedByName(SelectSeq(l.files, IsFileEntry))

\* the step answers the browser's prompt with the number of a directory of
\* the listing shown
BrEntersListed ==
    /\ pc = "br_prompt"
    /\ asked'.inp.kind = "line"
    /\ ParseInt(BrTyped).ok
    /\ ParseInt(BrTyped).val \in DOMAIN Listed(loc)
    /\ Listed(loc)[ParseInt(BrTyped).val].type = "dir"

BrFrameStep ==
    (pc = "br_prompt" /\ ~BrGoesUp /\ ~BrEntersListed) =>
        /\ loc'.current_path = loc.current_path
        /\ loc'.history = loc.history

\* C25: in the browser every input other than b, an accepted parent key or
\* the number of a listed directory leaves the current path and the history
\* unchanged: the number of a file, a number that is not in the listing, a
\* text that is no number, and 0 at the root.
C25_OtherInputsKeepBrowseState == [][BrFrameStep]_vars

\* in a directory shown as empty, the number 1 was taken from the listing of
\* the parent and the browser moved on into a directory of that name
C25_WitnessStaleEntry ==
    /\ loc.cmd = "browse" /\ "history" \in DOMAIN loc
    /\ pc = "br_list"
    /\ loc.files = <<>>
    /\ asked.prompt = "br_prompt"
    /\ asked.inp = Line(<<"1">>)
    /\ Len(loc.history) = 2
    /\ loc.history[2] # <<"/">>
    /\ loc.current_path # loc.history[2]

\* a file's number, a number out of the listing, a text and 0 at the root
\* were each answered by showing the same directory again
C25_WitnessKept ==
    /\ loc.cmd = "browse" /\ "history" \in DOMAIN loc
    /\ pc \in {"br_list", "br_ack"}
    /\ loc.files # <<>>
    /\ asked.prompt = "br_prompt"
    /\ asked.inp \in {Line(<<"3">>), Line(<<"x">>), Line(Str_0)}
    /\ loc.current_path = <<"/">>
    /\ loc.history = <<>>
    /\ loc.renders = 1

(***************************************************************************)
(* Indices taken from user input.                                          *)
(***************************************************************************)
\* the indices the commands have taken from their prompts, against the lists
\* they had displayed
PickedInRange ==
    /\ (loc.cmd = "upload" /\ pc \in {"up_dest", "up_path", "up_upload"}) =>
          /\ loc.choices # <<>>
          /\ \A k \in DOMAIN loc.choices : loc.choices[k] \in DOMAIN loc.missing
    /\ (loc.cmd = "quick" /\ pc = "qk_upload") =>
          /\ loc.choices # <<>>
          /\ \A k \in DOMAIN loc.choices : loc.choices[k] \in DOMAIN loc.local_roms
    /\ (loc.cmd = "menu" /\ pc \in {"um_confirm", "um_backup", "um_upload"}) =>
          /\ SelectedNumber \in 1..OnPage(loc)
          /\ loc.current_page * 9 + SelectedNumber \in DOMAIN loc.menu_versions
    /\ (loc.cmd = "music" /\ pc \in {"mu_remove", "mu_upload"}) =>
          loc.choice \in DOMAIN loc.options_map
    /\ (loc.cmd = "browse" /\ pc = "br_ack") =>
          loc.item \in DOMAIN Listed(loc)
    \* no lookup has failed
    /\ pc \notin {"UnboundLocalError", "IndexError", "KeyError"}

\* a step of the browser that picks an item picks it from the listing shown
BrPickStep ==
    (/\ pc = "br_prompt"
     /\ asked'.inp.kind = "line"
     /\ ~BrGoesUp
     /\ \/ pc' = "br_ack"
        \/ loc'.current_path # loc.current_path
        \/ loc'.history # loc.history) =>
        /\ ParseInt(BrTyped).ok
        /\ ParseInt(BrTyped).val \in DOMAIN Listed(loc)

\* C26: every index a command derives from user input to pick an item refers
\* to an entry of the list that was displayed, whatever is typed: on the
\* missing-ROM list in upload, the local ROM list in quick upload, the page of
\* the menu-version selector, the option map of the music command and the
\* item map of the browser; no lookup fails.
C26_PickedIndicesInRange == []PickedInRange /\ [][BrPickStep]_vars

\* the first listing of the browser was empty and a number was typed: the
\* look-up in item_map, never assigned, ended the program
C26_WitnessUnbound ==
    /\ loc.cmd = "browse"
    /\ pc = "UnboundLocalError"
    /\ loc.files = <<>>
    /\ loc.renders = 1
    /\ asked.prompt = "br_prompt"
    /\ ParseInt(Lower(Strip(asked.inp.text))).ok

\* two missing ROMs were picked for upload
C26_WitnessUpload ==
    /\ loc.cmd = "upload" /\ pc = "up_upload"
    /\ Len(loc.choices) = 2 /\ Len(loc.missing) = 2

\* the last option of the music command, remove, was picked
C26_WitnessMusic ==
    /\ loc.cmd = "music" /\ pc = "mu_remove"
    /\ loc.choice = Len(loc.options_map) /\ loc.choice > 1

(***************************************************************************)
(* What the music command reports.                                         *)
(***************************************************************************)
\* the deployer calls of the music command that change the cart
MusicRemovals == {i \in DOMAIN log : IsCall(log[i], "rm", SD_MENU_MUSIC_PATH)}
MusicUploads  == {i \in DOMAIN log : IsCall(log[i], "upload", SD_MENU_MUSIC_PATH)}

\* C27: the music command reports what the deployer returned: 'Background
\* music removed!' only after a delete call with exit code 0, 'Background
\* music set!' only after an upload call with exit code 0.
C27_MusicReportMatchesResult ==
    loc.cmd = "music" =>
        /\ outcome = "music_removed" =>
              /\ MusicRemovals # {}
              /\ \A i \in MusicRemovals : log[i].code = 0
        /\ outcome = "music_set" =>
              /\ MusicUploads # {}
              /\ \A i \in MusicUploads : log[i].code = 0
        /\ (\E i \in MusicUploads : log[i].code # 0) => outcome = "music_failed"

\* the delete call failed and the command ended with 'Background music
\* removed!'
C27_WitnessRemoveFailed ==
    /\ loc.cmd = "music"
    /\ pc \in Returned
    /\ outcome = "music_removed"
    /\ \E i \in MusicRemovals : log[i].code # 0

\* the upload failed and the command said so
C27_WitnessSetFailed ==
    /\ loc.cmd = "music"
    /\ pc \in Returned
    /\ outcome = "music_failed"
    /\ \E i \in MusicUploads : log[i].code # 0

====
